---- MODULE Spec2Model ----
(***************************************************************************)
(* Aura Global News Mood Map: the ingestion-analysis-storage pipeline.     *)
(*                                                                         *)
(* The module models                                                       *)
(*   - the news table and its writers (src/src/database/repository.py,     *)
(*     Database in src/main_old.py),                                       *)
(*   - the risk levelers (src/src/config/settings.py, src/main_old.py),    *)
(*   - the scorer / classifier adapters of src/main.py and                 *)
(*     NewsAnalyzer of src/src/services/analyzer.py,                       *)
(*   - the two ingestion programs: main() of src/main.py and the cycle of  *)
(*     main_loop of src/main_old.py.                                       *)
(*                                                                         *)
(* Conventions.  A text (title, url) is a sequence of tokens, so that a    *)
(* substring test is computed and not looked up.  A Python dict is a       *)
(* function whose DOMAIN is the set of keys present.  A sentiment score is *)
(* an integer number of 1/Scale units (the code rounds to 4 decimals).     *)
(* Texts of the model are shorter than the slices the code takes           *)
(* ([:500], [:512], [:2000]), which therefore return them whole.           *)
(***************************************************************************)
EXTENDS Integers, Sequences, FiniteSets, TLC

VARIABLES
    store,              \* rows of table haberler, in insertion (id) order
    tableExists,        \* the table has been created (init_database / init_db)
    lastCall,           \* the last add_news / insert_news call: input, result
    riskCall,           \* the last call of a risk leveler: input, result
    adapterCall,        \* the last call of analyze / classify / analyze_news
    prog,               \* which program is running: "none", "main", "old"
    pc,                 \* its position
    sentiment_loaded,   \* the sentiment pipeline object is not None
    classifier_loaded,  \* the zero-shot pipeline object is not None
    pending,            \* countries still to be handled in this run / cycle
    cur,                \* country being processed (main_old cycle)
    consumed,           \* articles of the current country already looked at
    all_raw_news,       \* main(): normalized articles fetched so far
    analyzed_news,      \* analyze_batch results / process_articles results
    all_news,           \* main_loop(): entry of each country in this cycle
    total_processed,    \* main_loop(): records inserted in this cycle
    critical_count,     \* main_loop(): critical records reported this cycle
    exited,             \* how the last program ended
    fetchCall,          \* the last call of fetch_all_countries: input, result
    utilCall,           \* the last call of a function of utils.py
    now,                \* the clock (datetime.now()), in seconds
    cache,              \* SimpleCache.cache: key -> (timestamp, value)
    manager_cache,      \* CacheManager._cache: key -> (value, expiry)
    last_set,           \* what the caller stored last under each key
    cacheCall,          \* the last call on a cache object: input, result
    connections         \* database connections that are open

storeVars == <<store, tableExists, lastCall>>
cycleVars == <<all_news, total_processed, critical_count>>
pipeVars  == <<prog, pc, sentiment_loaded, classifier_loaded, pending, cur,
               consumed, all_raw_news, analyzed_news, all_news,
               total_processed, critical_count, exited>>
cacheVars == <<now, cache, manager_cache, last_set, cacheCall>>
libVars   == <<fetchCall, utilCall, now, cache, manager_cache, last_set,
               cacheCall, connections>>
vars      == <<store, tableExists, lastCall, riskCall, adapterCall, prog, pc,
               sentiment_loaded, classifier_loaded, pending, cur, consumed,
               all_raw_news, analyzed_news, all_news, total_processed,
               critical_count, exited, fetchCall, utilCall, now, cache,
               manager_cache, last_set, cacheCall, connections>>

----------------------------------------------------------------------------
(* Bounds of the model                                                     *)

MaxBatch == 3       \* longest batch handed to add_news / insert_news directly
MaxNews  == 2       \* most articles main() fetches in a run, and most
                    \* articles of one country in a cycle of main_loop()
ScoreSlack == 5     \* how far beyond [-1, 1] the levelers are probed
MaxRows  == 6       \* most records of a snapshot handed to src/utils.py
MaxSnapshot == 3    \* most records of a snapshot handed to the risk engine
MaxRetries == 3     \* most attempts a retry policy allows
MaxTicks == 4       \* how often the clock advances while a cache is used

----------------------------------------------------------------------------
(* Values                                                                  *)

Scale == 10000      \* round(score * confidence, 4): scores are n / 10^4

NullText == << "NULL" >>    \* SQL NULL / Python None in a text column
Unbindable == << "UNBINDABLE" >>    \* a value of a type sqlite3 cannot
                                    \* bind (a list or a dict of the JSON)
EmptyText == << >>          \* the empty string ''
Marker == "[Removed]"       \* the removal placeholder

\* dict.get(key, default)
Get(d, key, default) == IF key \in DOMAIN d THEN d[key] ELSE default

\* Python truthiness of a text or None
Falsy(t) == t = NullText \/ t = EmptyText

\* `Marker in t`
Contains(t, tok) == \E i \in 1..Len(t) : t[i] = tok

\* the result of a call: a value, None, an object of another type than the
\* interface promises, or an exception leaving the call (value is a filler
\* nothing reads in the last three cases)
Returned(v) ==
    [raised |-> FALSE, none |-> FALSE, junk |-> FALSE, value |-> v]
ReturnedNone(v) ==
    [raised |-> FALSE, none |-> TRUE, junk |-> FALSE, value |-> v]
ReturnedJunk(v) ==
    [raised |-> FALSE, none |-> FALSE, junk |-> TRUE, value |-> v]
Raised(v) ==
    [raised |-> TRUE, none |-> FALSE, junk |-> FALSE, value |-> v]

----------------------------------------------------------------------------
(* The table haberler (NewsSchema.CREATE_TABLE_SQL; the same statement in  *)
(* Database.init_db)                                                       *)

\* ulke, baslik, url are NOT NULL (tarih and skor are always given by the
\* batches of the model)
NotNullOK(row) ==
    /\ row.ulke # "NULL"
    /\ row.baslik # NullText
    /\ row.url # NullText

\* url TEXT UNIQUE NOT NULL
UrlUniqueOK(rows, row) == \A i \in 1..Len(rows) : rows[i].url # row.url

\* UNIQUE(baslik, url)
PairUniqueOK(rows, row) ==
    \A i \in 1..Len(rows) :
        ~(rows[i].baslik = row.baslik /\ rows[i].url = row.url)

ConstraintsOKNoUnique(rows, row) == NotNullOK(row)

\* sqlite3.IntegrityError is raised exactly when this is FALSE
ConstraintsOK(rows, row) ==
    /\ NotNullOK(row)
    /\ UrlUniqueOK(rows, row)
    /\ PairUniqueOK(rows, row)

\* the parameters can be bound; otherwise execute raises an error of
\* sqlite3 that is not an IntegrityError
BindOK(row) == row.baslik # Unbindable

\* (mutant) INSERT OR REPLACE: a stored row with the url gives way
ExecuteInsertOrReplace(rows, row) ==
    IF ~BindOK(row)
    THEN [ok |-> FALSE, other |-> TRUE, rows |-> rows]
    ELSE IF NotNullOK(row)
    THEN [ok |-> TRUE, other |-> FALSE,
          rows |-> Append(SelectSeq(rows, LAMBDA r : r.url # row.url), row)]
    ELSE [ok |-> FALSE, other |-> FALSE, rows |-> rows]

\* cursor.execute(INSERT_NEWS_SQL, ...) inside the open transaction: the
\* row is added, or IntegrityError is raised, or (other) another error
ExecuteInsert(rows, row) ==
    IF ~BindOK(row)
    THEN [ok |-> FALSE, other |-> TRUE, rows |-> rows]
    ELSE IF ConstraintsOK(rows, row)
    THEN [ok |-> TRUE, other |-> FALSE, rows |-> Append(rows, row)]
    ELSE [ok |-> FALSE, other |-> FALSE, rows |-> rows]

\* the parameter tuple of SQLiteNewsRepository.add_news
RowOfAddNews(news) ==
    [ulke          |-> Get(news, "ulke", "NULL"),
     baslik        |-> Get(news, "baslik", NullText),
     url           |-> Get(news, "url", NullText),
     skor          |-> Get(news, "skor", 0),
     kategori      |-> Get(news, "kategori", "Unknown"),
     risk_seviyesi |-> Get(news, "risk_seviyesi", "Normal")]

\* the parameter tuple of Database.insert_news
RowOfInsertNews(news) ==
    [ulke          |-> Get(news, "ulke", "Unknown"),
     baslik        |-> Get(news, "baslik", EmptyText),
     url           |-> Get(news, "url", EmptyText),
     skor          |-> Get(news, "skor", 0),
     kategori      |-> Get(news, "kategori", "Unknown"),
     risk_seviyesi |-> Get(news, "risk_seviyesi", "Normal")]

\* (mutant) the counter is advanced for skipped records too
RECURSIVE AddNewsLoopCountsAll(_, _, _)
AddNewsLoopCountsAll(rows, news_list, inserted_count) ==
    IF news_list = << >>
    THEN [rows |-> rows, inserted_count |-> inserted_count,
          raised |-> FALSE]
    ELSE LET row == [ulke          |-> Get(Head(news_list), "ulke", "NULL"),
                     baslik        |-> Get(Head(news_list), "baslik", NullText),
                     url           |-> Get(Head(news_list), "url", NullText),
                     skor          |-> Get(Head(news_list), "skor", 0),
                     kategori      |-> Get(Head(news_list), "kategori", "Unknown"),
                     risk_seviyesi |-> Get(Head(news_list), "risk_seviyesi", "Normal")]
             res == IF NotNullOK(row) /\ UrlUniqueOK(rows, row)
                    THEN Append(rows, row) ELSE rows
         IN  AddNewsLoopCountsAll(res, Tail(news_list), inserted_count + 1)

\* the for loop of add_news: per-record insert, IntegrityError skipped;
\* any other error of execute leaves the loop
RECURSIVE AddNewsLoop(_, _, _)
AddNewsLoop(rows, news_list, inserted_count) ==
    IF news_list = << >>
    THEN [rows |-> rows, inserted_count |-> inserted_count,
          raised |-> FALSE]
    ELSE LET res == ExecuteInsert(rows, RowOfAddNews(Head(news_list)))
         IN  IF res.other
             THEN [rows |-> rows, inserted_count |-> inserted_count,
                   raised |-> TRUE]
             ELSE AddNewsLoop(res.rows, Tail(news_list),
                              IF res.ok THEN inserted_count + 1
                              ELSE inserted_count)

\* the for loop of insert_news: IntegrityError and every other Exception
\* of execute are skipped
RECURSIVE InsertNewsLoop(_, _, _)
InsertNewsLoop(rows, news_data, inserted_count) ==
    IF news_data = << >>
    THEN [rows |-> rows, inserted_count |-> inserted_count]
    ELSE LET res == ExecuteInsert(rows, RowOfInsertNews(Head(news_data)))
         IN  InsertNewsLoop(res.rows, Tail(news_data),
                            IF res.ok THEN inserted_count + 1 ELSE inserted_count)

\* SQLiteNewsRepository.add_news: the rows committed, the value returned,
\* whether an exception leaves the call
add_news(rows, hasTable, news_list, connOk) ==
    IF news_list = << >>
    THEN [rows |-> rows, ret |-> 0, raised |-> FALSE]
    ELSE IF ~connOk
    THEN \* DatabaseException from __enter__, logged and re-raised
         [rows |-> rows, ret |-> 0, raised |-> TRUE]
    ELSE IF ~hasTable
    THEN \* sqlite3.OperationalError: not an IntegrityError, not a
         \* DatabaseException; the connection is closed uncommitted
         [rows |-> rows, ret |-> 0, raised |-> TRUE]
    ELSE LET done == AddNewsLoop(rows, news_list, 0)
         IN  IF done.raised
             THEN \* the error is not a DatabaseException: it leaves the
                  \* with block, __exit__ closes the connection and the
                  \* inserts of the batch, not committed, are lost
                  [rows |-> rows, ret |-> 0, raised |-> TRUE]
             ELSE [rows |-> done.rows, ret |-> done.inserted_count,
                   raised |-> FALSE]

\* Database.insert_news
insert_news(rows, hasTable, news_data, connOk) ==
    IF news_data = << >>
    THEN [rows |-> rows, ret |-> 0, raised |-> FALSE]
    ELSE IF ~connOk
    THEN [rows |-> rows, ret |-> 0, raised |-> FALSE]
    ELSE IF ~hasTable
    THEN \* every execute raises OperationalError, caught per record
         [rows |-> rows, ret |-> 0, raised |-> FALSE]
    ELSE LET done == InsertNewsLoop(rows, news_data, 0)
         IN  [rows |-> done.rows, ret |-> done.inserted_count, raised |-> FALSE]

\* what a SELECT of the repository hands back: the rows that satisfy the
\* WHERE clause, newest first (ORDER BY tarih DESC; records are stamped when
\* they are analyzed, so the newest is the last one inserted)
RECURSIVE SelectNewestFirst(_, _, _)
SelectNewestFirst(rows, column, value) ==
    IF rows = << >> THEN << >>
    ELSE SelectNewestFirst(Tail(rows), column, value)
         \o (IF Head(rows)[column] = value THEN << Head(rows) >> ELSE << >>)

RECURSIVE NewestFirst(_)
NewestFirst(rows) ==
    IF rows = << >> THEN << >>
    ELSE NewestFirst(Tail(rows)) \o << Head(rows) >>

\* LIMIT ?
Limit(rows, limit) ==
    IF Len(rows) <= limit THEN rows ELSE SubSeq(rows, 1, limit)

\* SQLiteNewsRepository.get_all_news: the handler is except
\* DatabaseException, which __enter__ raises when the connection cannot be
\* opened; sqlite3.OperationalError (no such table) is not one
get_all_news(rows, hasTable, connOk) ==
    IF ~connOk THEN Returned(<< >>)
    ELSE IF ~hasTable THEN Raised(<< >>)
    ELSE Returned(rows)

\* SQLiteNewsRepository.get_news_by_country: handlers except sqlite3.Error
\* and except Exception
get_news_by_country(rows, hasTable, country, connOk) ==
    IF ~connOk THEN Returned(<< >>)
    ELSE IF ~hasTable THEN Returned(<< >>)
    ELSE Returned(SelectNewestFirst(rows, "ulke", country))

\* SQLiteNewsRepository.get_news_by_category
get_news_by_category(rows, hasTable, category, connOk) ==
    IF ~connOk THEN Returned(<< >>)
    ELSE IF ~hasTable THEN Returned(<< >>)
    ELSE Returned(SelectNewestFirst(rows, "kategori", category))

\* SQLiteNewsRepository.get_recent_news: the handler is except
\* DatabaseException
get_recent_news(rows, hasTable, limit, connOk) ==
    IF ~connOk THEN Returned(<< >>)
    ELSE IF ~hasTable THEN Raised(<< >>)
    ELSE Returned(Limit(NewestFirst(rows), limit))

----------------------------------------------------------------------------
(* Direct use of the storage layer                                         *)

StoreRecord(t, u) ==
    [ulke |-> "us", baslik |-> t, url |-> u, skor |-> 0,
     kategori |-> "Unknown", risk_seviyesi |-> "Normal"]

\* records handed to the store: two titles under one url, one title under
\* three urls, and a record that has no title
StoreNews ==
    { StoreRecord(<<"a">>, <<"u1">>), StoreRecord(<<"b">>, <<"u1">>),
      StoreRecord(<<"a">>, <<"u2">>), StoreRecord(<<"a">>, <<"u3">>),
      [ulke |-> "us", url |-> <<"u1">>, skor |-> 0,
       kategori |-> "Unknown", risk_seviyesi |-> "Normal"] }

RECURSIVE SeqsUpTo(_, _)
SeqsUpTo(S, n) ==
    IF n = 0 THEN { << >> }
    ELSE LET shorter == SeqsUpTo(S, n - 1)
         IN  shorter \cup { Append(s, x) : s \in shorter, x \in S }

\* batches in which the title of one record cannot be bound
FaultBatches ==
    { << StoreRecord(<<"a">>, <<"u2">>), StoreRecord(Unbindable, <<"u1">>),
         StoreRecord(<<"a">>, <<"u3">>) >>,
      << StoreRecord(Unbindable, <<"u1">>), StoreRecord(<<"a">>, <<"u1">>) >> }

\* the batches a caller hands over
StoreBatches == SeqsUpTo(StoreNews, MaxBatch) \cup FaultBatches

NoCall == [op |-> "none", opened |-> FALSE, hadTable |-> FALSE,
           batch |-> << >>, before |-> << >>, ret |-> 0, raised |-> FALSE]

NoRisk == [fn |-> "none", score |-> 0, level |-> "none"]

NoAdapter == [fn |-> "none"]

NoFetch == [fn |-> "none"]

NoUtil == [fn |-> "none"]

\* Python None as a cached value and as the result of get
None == "None"

NoEntry == [at |-> 0 - 1, value |-> None]

NoCacheCall(obj) ==
    [obj |-> obj, op |-> "none", key |-> "none", at |-> 0,
     stored |-> NoEntry, result |-> None, invoked |-> FALSE]

\* no cache is in use
CacheIdle ==
    /\ now = 0
    /\ cache = << >>
    /\ manager_cache = << >>
    /\ last_set = << >>
    /\ cacheCall = NoCacheCall("none")

LibIdle ==
    /\ fetchCall = NoFetch
    /\ utilCall = NoUtil
    /\ CacheIdle
    /\ connections = 0

PipeIdle ==
    /\ prog = "none"
    /\ pc = "idle"
    /\ sentiment_loaded = FALSE
    /\ classifier_loaded = FALSE
    /\ pending = {}
    /\ cur = "none"
    /\ consumed = 0
    /\ all_raw_news = << >>
    /\ analyzed_news = << >>
    /\ all_news = << >>
    /\ total_processed = 0
    /\ critical_count = 0
    /\ exited = "none"

Init ==
    /\ store = << >>
    /\ tableExists = FALSE
    /\ lastCall = NoCall
    /\ riskCall = NoRisk
    /\ adapterCall = NoAdapter
    /\ PipeIdle
    /\ LibIdle

\* SQLiteNewsRepository.init_database / Database.init_db:
\* CREATE TABLE IF NOT EXISTS, CREATE INDEX IF NOT EXISTS, commit
InitDatabase ==
    \E connOk \in BOOLEAN :
        /\ lastCall = NoCall
        /\ tableExists' = (tableExists \/ connOk)
        /\ lastCall' = [op |-> "init_database", opened |-> connOk,
                        hadTable |-> tableExists, before |-> store,
                        result |-> connOk, raised |-> FALSE]
        /\ UNCHANGED <<store, riskCall, adapterCall>>
        /\ UNCHANGED pipeVars
        /\ UNCHANGED libVars

\* a caller invokes repository.add_news(news_list); the call record holds
\* what went in and what came out until the caller has taken the result
AddNews ==
    \E news_list \in StoreBatches, connOk \in BOOLEAN :
        LET out == add_news(store, tableExists, news_list, connOk)
        IN  /\ lastCall = NoCall
            /\ store' = out.rows
            /\ lastCall' = [op |-> "add_news", opened |-> connOk,
                            hadTable |-> tableExists, batch |-> news_list,
                            before |-> store, ret |-> out.ret,
                            raised |-> out.raised]
            /\ UNCHANGED <<tableExists, riskCall, adapterCall>>
            /\ UNCHANGED pipeVars
            /\ UNCHANGED libVars

\* a caller invokes db.insert_news(news_data)
InsertNews ==
    \E news_data \in StoreBatches, connOk \in BOOLEAN :
        LET out == insert_news(store, tableExists, news_data, connOk)
        IN  /\ lastCall = NoCall
            /\ store' = out.rows
            /\ lastCall' = [op |-> "insert_news", opened |-> connOk,
                            hadTable |-> tableExists, batch |-> news_data,
                            before |-> store, ret |-> out.ret,
                            raised |-> out.raised]
            /\ UNCHANGED <<tableExists, riskCall, adapterCall>>
            /\ UNCHANGED pipeVars
            /\ UNCHANGED libVars

\* the record of a read: what was asked, what came back
ReadCall(op, connOk, arg, out) ==
    [op |-> op, opened |-> connOk, hadTable |-> tableExists, arg |-> arg,
     before |-> store, result |-> out.value, raised |-> out.raised]

ReadCountries == { "us", "kr" }
ReadCategories == { "Unknown", "Error" }
ReadLimits == { 0, 1, 100 }

\* a caller invokes repository.get_all_news()
GetAllNews ==
    \E connOk \in BOOLEAN :
        /\ lastCall = NoCall
        /\ lastCall' = ReadCall("get_all_news", connOk, "none",
                                get_all_news(store, tableExists, connOk))
        /\ UNCHANGED <<store, tableExists, riskCall, adapterCall>>
        /\ UNCHANGED pipeVars
        /\ UNCHANGED libVars

\* a caller invokes repository.get_news_by_country(country)
GetNewsByCountry ==
    \E connOk \in BOOLEAN, country \in ReadCountries :
        /\ lastCall = NoCall
        /\ lastCall' = ReadCall("get_news_by_country", connOk, country,
                                get_news_by_country(store, tableExists,
                                                    country, connOk))
        /\ UNCHANGED <<store, tableExists, riskCall, adapterCall>>
        /\ UNCHANGED pipeVars
        /\ UNCHANGED libVars

\* a caller invokes repository.get_news_by_category(category)
GetNewsByCategory ==
    \E connOk \in BOOLEAN, category \in ReadCategories :
        /\ lastCall = NoCall
        /\ lastCall' = ReadCall("get_news_by_category", connOk, category,
                                get_news_by_category(store, tableExists,
                                                     category, connOk))
        /\ UNCHANGED <<store, tableExists, riskCall, adapterCall>>
        /\ UNCHANGED pipeVars
        /\ UNCHANGED libVars

\* a caller invokes repository.get_recent_news(limit)
GetRecentNews ==
    \E connOk \in BOOLEAN, limit \in ReadLimits :
        /\ lastCall = NoCall
        /\ lastCall' = ReadCall("get_recent_news", connOk, limit,
                                get_recent_news(store, tableExists, limit,
                                                connOk))
        /\ UNCHANGED <<store, tableExists, riskCall, adapterCall>>
        /\ UNCHANGED pipeVars
        /\ UNCHANGED libVars

\* the caller has the returned count (or the exception) and goes on
TakeResult ==
    /\ lastCall # NoCall
    /\ lastCall' = NoCall
    /\ UNCHANGED <<store, tableExists, riskCall, adapterCall>>
    /\ UNCHANGED pipeVars
    /\ UNCHANGED libVars

NextStore ==
    \/ InitDatabase \/ AddNews \/ InsertNews
    \/ GetAllNews \/ GetNewsByCountry \/ GetNewsByCategory \/ GetRecentNews
    \/ TakeResult

SpecStore == Init /\ [][NextStore]_vars

----------------------------------------------------------------------------
(* Claims about the storage layer, checked under SpecStore                 *)

IsStoreCall == lastCall.op \in {"add_news", "insert_news"}

\* the row each record of the last call's batch was turned into
CallRow(i) ==
    IF lastCall.op = "add_news"
    THEN RowOfAddNews(lastCall.batch[i])
    ELSE RowOfInsertNews(lastCall.batch[i])

CallLen == Len(lastCall.batch)

PairOf(row) == <<row.baslik, row.url>>
Pairs(rows) == { PairOf(rows[i]) : i \in 1..Len(rows) }
Urls(rows)  == { rows[i].url : i \in 1..Len(rows) }

NoDuplicatePairs(rows) ==
    \A i, j \in 1..Len(rows) : PairOf(rows[i]) = PairOf(rows[j]) => i = j

\* record i of the batch has the (title, url) of a record stored before the call
DuplicatesStored(i) == PairOf(CallRow(i)) \in Pairs(lastCall.before)

\* ... or of an earlier record of the same batch
RepeatsEarlier(i) == \E j \in 1..(i - 1) : PairOf(CallRow(j)) = PairOf(CallRow(i))

DuplicateCount ==
    Cardinality({ i \in 1..CallLen : DuplicatesStored(i) \/ RepeatsEarlier(i) })

StoredDuplicateCount == Cardinality({ i \in 1..CallLen : DuplicatesStored(i) })

ReachedTable == lastCall.opened /\ lastCall.hadTable

\* C1: no two stored records share the same (title, url); a call whose batch
\* holds only records whose (title, url) is already stored returns 0 and
\* leaves the stored records as they were.
C1_DedupInvariant ==
    /\ NoDuplicatePairs(store)
    /\ (IsStoreCall /\ (\A i \in 1..CallLen : DuplicatesStored(i)))
        => /\ store = lastCall.before
           /\ lastCall.opened => (lastCall.ret = 0 /\ ~lastCall.raised)

C1_Witness ==
    /\ lastCall.op = "add_news"
    /\ lastCall.opened
    /\ CallLen >= 2
    /\ \A i \in 1..CallLen : DuplicatesStored(i)
    /\ Len(store) = 2

AllInsertable ==
    \A i \in 1..CallLen :
        (DuplicatesStored(i) \/ RepeatsEarlier(i))
        \/ /\ BindOK(CallRow(i))
           /\ NotNullOK(CallRow(i))
           /\ CallRow(i).url \notin Urls(lastCall.before)
           /\ \A j \in 1..(i - 1) : CallRow(j).url # CallRow(i).url

C3_PairIsTheKey ==
    (lastCall.op = "add_news" /\ ReachedTable)
        => \A i \in 1..CallLen :
             (NotNullOK(CallRow(i)) /\ ~DuplicatesStored(i) /\ ~RepeatsEarlier(i))
                => \E m \in 1..Len(store) : store[m] = CallRow(i)

----------------------------------------------------------------------------
(* Risk levelers                                                           *)

\* RiskThresholdsConfig defaults, in 1/Scale units
critical == -7000
warning  == -4000
normal   == 0
positive == 5000

\* Config of src/config.py, in 1/Scale units
CRITICAL_THRESHOLD == -7000
WARNING_THRESHOLD  == -4000
POSITIVE_THRESHOLD == 5000

\* (mutant) the four-level ladder of main_old used in place of the five-level one
get_risk_level_four_levels(score) ==
    IF score <= critical THEN "KRITIK"
    ELSE IF score <= warning THEN "UYARI"
    ELSE IF score >= positive THEN "POZITIF"
    ELSE "NORMAL"

\* (mutant) strict comparisons at the two lower thresholds
get_risk_level_strict(score) ==
    IF score < critical THEN "KRITIK"
    ELSE IF score < warning THEN "UYARI"
    ELSE IF score < normal THEN "NORMAL"
    ELSE IF score < positive THEN "POZITIF"
    ELSE "COK POZITIF"

\* RiskThresholdsConfig.get_risk_level (labels without their emoji)
get_risk_level(score) ==
    IF score <= critical THEN "KRITIK"
    ELSE IF score <= warning THEN "UYARI"
    ELSE IF score < normal THEN "NORMAL"
    ELSE IF score < positive THEN "POZITIF"
    ELSE "COK POZITIF"

\* (mutant) the positive threshold compared strictly
calculate_risk_level_strict(sentiment_score) ==
    IF sentiment_score <= CRITICAL_THRESHOLD THEN " KRITIK"
    ELSE IF sentiment_score <= WARNING_THRESHOLD THEN " UYARI"
    ELSE IF sentiment_score > POSITIVE_THRESHOLD THEN " POZITIF"
    ELSE " NORMAL"

\* NewsAnalyzer.calculate_risk_level of main_old
calculate_risk_level(sentiment_score) ==
    IF sentiment_score <= CRITICAL_THRESHOLD THEN " KRITIK"
    ELSE IF sentiment_score <= WARNING_THRESHOLD THEN " UYARI"
    ELSE IF sentiment_score >= POSITIVE_THRESHOLD THEN " POZITIF"
    ELSE " NORMAL"

Scores == (0 - Scale - ScoreSlack) .. (Scale + ScoreSlack)

\* the leveler is handed any score
InitRisk ==
    /\ store = << >>
    /\ tableExists = FALSE
    /\ lastCall = NoCall
    /\ riskCall \in { [fn |-> "none", score |-> s, level |-> "none"] : s \in Scores }
    /\ adapterCall = NoAdapter
    /\ PipeIdle
    /\ LibIdle

CallGetRiskLevel ==
    /\ riskCall.fn = "none"
    /\ riskCall' = [fn |-> "get_risk_level", score |-> riskCall.score,
                    level |-> get_risk_level(riskCall.score)]
    /\ UNCHANGED <<store, tableExists, lastCall, adapterCall>>
    /\ UNCHANGED pipeVars
    /\ UNCHANGED libVars

CallCalculateRiskLevel ==
    /\ riskCall.fn = "none"
    /\ riskCall' = [fn |-> "calculate_risk_level", score |-> riskCall.score,
                    level |-> calculate_risk_level(riskCall.score)]
    /\ UNCHANGED <<store, tableExists, lastCall, adapterCall>>
    /\ UNCHANGED pipeVars
    /\ UNCHANGED libVars

NextRisk == CallGetRiskLevel \/ CallCalculateRiskLevel

SpecRisk == InitRisk /\ [][NextRisk]_vars

\* the score s/Scale compared with the decimal tenths/10
AtMostTenths(s, tenths)   == 10 * s <= tenths * Scale
LessThanTenths(s, tenths) == 10 * s < tenths * Scale

\* C5: with the default thresholds get_risk_level returns Critical iff
\* score <= -0.7, Warning iff -0.7 < score <= -0.4, Normal iff
\* -0.4 < score < 0, Positive iff 0 <= score < 0.5, Very Positive iff
\* score >= 0.5: exactly one label for every score.
C5_FiveLevels ==
    riskCall.fn = "get_risk_level" =>
        LET s == riskCall.score
            l == riskCall.level
        IN  /\ l \in {"KRITIK", "UYARI", "NORMAL", "POZITIF", "COK POZITIF"}
            /\ (l = "KRITIK")  <=> AtMostTenths(s, -7)
            /\ (l = "UYARI")   <=> (~AtMostTenths(s, -7) /\ AtMostTenths(s, -4))
            /\ (l = "NORMAL")  <=> (~AtMostTenths(s, -4) /\ LessThanTenths(s, 0))
            /\ (l = "POZITIF") <=> (~LessThanTenths(s, 0) /\ LessThanTenths(s, 5))
            /\ (l = "COK POZITIF") <=> ~LessThanTenths(s, 5)

\* the boundary score -0.7 has been levelled
C5_Witness ==
    /\ riskCall.fn = "get_risk_level"
    /\ riskCall.score = -7000
    /\ riskCall.level = "KRITIK"

\* C6 as stated: get_risk_level gives Critical for -0.8, Warning for -0.5,
\* Positive for 0.7 and Normal for 0.0.
C6_Original ==
    riskCall.fn = "get_risk_level" =>
        /\ riskCall.score = -8000 => riskCall.level = "KRITIK"
        /\ riskCall.score = -5000 => riskCall.level = "UYARI"
        /\ riskCall.score = 7000  => riskCall.level = "POZITIF"
        /\ riskCall.score = 0     => riskCall.level = "NORMAL"

\* C6 (amended): get_risk_level gives Critical for -0.8, Warning for -0.5,
\* Very Positive for 0.7 and Positive for 0.0.
C6_SamplePoints ==
    riskCall.fn = "get_risk_level" =>
        /\ riskCall.score = -8000 => riskCall.level = "KRITIK"
        /\ riskCall.score = -5000 => riskCall.level = "UYARI"
        /\ riskCall.score = 7000  => riskCall.level = "COK POZITIF"
        /\ riskCall.score = 0     => riskCall.level = "POZITIF"

C6_Witness ==
    /\ riskCall.fn = "get_risk_level"
    /\ riskCall.score = 7000
    /\ riskCall.level = "COK POZITIF"

\* C7: calculate_risk_level of main_old gives exactly one label: Critical
\* when score <= -0.7, Warning when -0.7 < score <= -0.4, Positive when
\* score >= 0.5, Normal strictly between -0.4 and 0.5.
C7_FourLevels ==
    riskCall.fn = "calculate_risk_level" =>
        LET s == riskCall.score
            l == riskCall.level
        IN  /\ l \in {" KRITIK", " UYARI", " NORMAL", " POZITIF"}
            /\ (l = " KRITIK")  <=> AtMostTenths(s, -7)
            /\ (l = " UYARI")   <=> (~AtMostTenths(s, -7) /\ AtMostTenths(s, -4))
            /\ (l = " POZITIF") <=> ~LessThanTenths(s, 5)
            /\ (l = " NORMAL")  <=> (~AtMostTenths(s, -4) /\ LessThanTenths(s, 5))
            /\ (s = -8000 => l = " KRITIK") /\ (s = -5000 => l = " UYARI")
            /\ (s = 7000 => l = " POZITIF") /\ (s = 0 => l = " NORMAL")

\* the boundary score 0.5 has been levelled
C7_Witness ==
    /\ riskCall.fn = "calculate_risk_level"
    /\ riskCall.score = 5000
    /\ riskCall.level = " POZITIF"

----------------------------------------------------------------------------
(* Scorer and classifier adapters (src/main.py), NewsAnalyzer              *)
(* (src/src/services/analyzer.py), NewsAnalyzer of src/main_old.py         *)

\* NewsConfig.categories / Config.NEWS_CATEGORIES
categories ==
    << "Artificial Intelligence", "Cybersecurity", "Hardware & Chips",
       "Crypto & Fintech", "Electric Vehicles", "Software Development",
       "Cloud Computing", "Mobile Technology" >>

CategorySet == { categories[i] : i \in 1..Len(categories) }

\* round(x, 4) of a value given in 1/(10*Scale) units, result in 1/Scale
\* units (round half to even)
Round4(x) ==
    LET a == IF x < 0 THEN 0 - x ELSE x
        q == a \div 10
        r == a % 10
        m == IF r < 5 THEN q
             ELSE IF r > 5 THEN q + 1
             ELSE IF q % 2 = 0 THEN q ELSE q + 1
    IN  IF x < 0 THEN 0 - m ELSE m

\* what the sentiment pipeline does when called: it raises, or returns a
\* label and a confidence in [0, 1] (a softmax probability, here in
\* 1/(10*Scale) units)
SentimentOutcome(kind, label, score) ==
    [kind |-> kind, label |-> label, score |-> score]

\* what the zero-shot pipeline does when called: it raises, or returns the
\* candidate labels it was given, best first (no label when given none)
ClassifierOutcome(kind, labels) == [kind |-> kind, labels |-> labels]

\* (mutant) the pipeline call is not guarded
analyze_unguarded(text, loaded, outcome) ==
    IF Falsy(text) THEN Returned(0)
    ELSE IF ~loaded THEN Returned(0)
    ELSE IF outcome.kind = "raise" THEN Raised(0)
    ELSE Returned(Round4((IF outcome.label = "POSITIVE" THEN 1 ELSE -1)
                         * outcome.score))

\* (mutant) the confidence is added to the signed label
analyze_adds_confidence(text, loaded, outcome) ==
    IF Falsy(text) THEN Returned(0)
    ELSE IF ~loaded THEN Returned(0)
    ELSE IF outcome.kind = "raise" THEN Returned(0)
    ELSE Returned(Round4((IF outcome.label = "POSITIVE" THEN 10 * Scale
                          ELSE 0 - 10 * Scale) + outcome.score))

\* DistilBERTSentimentAnalyzer.analyze
analyze(text, loaded, outcome) ==
    IF Falsy(text) THEN Returned(0)
    ELSE IF ~loaded THEN Returned(0)
    ELSE IF outcome.kind = "raise" THEN Returned(0)
    ELSE Returned(Round4((IF outcome.label = "POSITIVE" THEN 1 ELSE -1)
                         * outcome.score))

\* ZeroShotCategoryClassifier.classify
classify(text, loaded, outcome) ==
    IF Falsy(text) THEN Returned("Unknown")
    ELSE IF ~loaded THEN Returned("Unknown")
    ELSE IF outcome.kind = "raise" THEN Returned("Unknown")
    ELSE IF outcome.labels # << >> THEN Returned(outcome.labels[1])
    ELSE Returned("Unknown")

\* {**d, **e}
Merge(d, e) ==
    [k \in (DOMAIN d) \cup (DOMAIN e) |-> IF k \in DOMAIN e THEN e[k] ELSE d[k]]

\* NewsAnalyzer.analyze_news.  s and c are the results of the calls
\* self.sentiment.analyze(baslik[:512]) and self.classifier.classify(
\* baslik[:512]); fails says that a statement of the try body outside the
\* three guarded calls raises.  A score that is not a number makes
\* get_risk_level raise (caught: 'NORMAL') and then the format
\* {sentiment_score:.2f} of the debug line raise (the outer handler).
analyze_news(news, s, c, fails) ==
    IF DOMAIN news = {} \/ "baslik" \notin DOMAIN news
    THEN news
    ELSE IF Falsy(news.baslik)
    THEN Merge(news, [skor |-> 0, kategori |-> "Unknown",
                      risk_seviyesi |-> "NORMAL"])
    ELSE IF fails \/ s.junk
    THEN Merge(news, [skor |-> 0, kategori |-> "Error",
                      risk_seviyesi |-> "HATA", error |-> "e"])
    ELSE LET sentiment_score ==
                 IF s.raised \/ s.none THEN 0 ELSE s.value
             category ==
                 IF c.raised \/ c.none \/ c.value = ""
                 THEN "Unknown" ELSE c.value
             risk_level == get_risk_level(sentiment_score)
         IN  Merge(news, [skor |-> sentiment_score, kategori |-> category,
                          risk_seviyesi |-> risk_level, analyzed_at |-> "now"])

\* NewsAnalyzer.analyze_article of main_old: (puan, kategori, risk)
analyze_article(baslik, sLoaded, sOut, cLoaded, cOut, fails) ==
    IF fails
    THEN [puan |-> 0, kategori |-> "Error", risk |-> " HATA"]
    ELSE IF Falsy(baslik)
    THEN [puan |-> 0, kategori |-> "Unknown", risk |-> " HATA"]
    ELSE LET puan ==
                 IF sLoaded /\ sOut.kind # "raise"
                 THEN Round4(IF sOut.label = "POSITIVE"
                             THEN sOut.score ELSE 0 - sOut.score)
                 ELSE 0
             kategori ==
                 IF cLoaded /\ cOut.kind # "raise" /\ cOut.labels # << >>
                 THEN cOut.labels[1]
                 ELSE "Unknown"
         IN  [puan |-> puan, kategori |-> kategori,
              risk |-> calculate_risk_level(puan)]

\* the filter of process_articles: the article is analyzed iff this holds
KeepArticle(article) ==
    /\ ~Falsy(Get(article, "title", NullText))
    /\ ~Falsy(Get(article, "url", NullText))
    /\ ~Contains(Get(article, "title", NullText), Marker)

\* one iteration of the loop of NewsAnalyzer.process_articles (main_old):
\* the records appended to processed_news
process_article(article, country_code, sLoaded, sOut, cLoaded, cOut, fails) ==
    IF ~KeepArticle(article)
    THEN << >>
    ELSE LET res == analyze_article(article.title, sLoaded, sOut,
                                    cLoaded, cOut, fails)
         IN  << [ulke |-> country_code, baslik |-> article.title,
                 skor |-> res.puan, url |-> article.url,
                 kategori |-> res.kategori, risk_seviyesi |-> res.risk] >>

\* the normalisation loop of NewsAPIFetcher.fetch_news (main.py)
RECURSIVE Normalize(_, _)
Normalize(articles, country) ==
    IF articles = << >> THEN << >>
    ELSE LET article == Head(articles)
             rest == Normalize(Tail(articles), country)
         IN  IF ~Falsy(Get(article, "title", NullText))
                /\ ~Falsy(Get(article, "url", NullText))
             THEN << [ulke |-> country, baslik |-> article.title,
                      url |-> article.url] >> \o rest
             ELSE rest

\* NewsAPIFetcher.fetch_news: the response is the article list of a
\* successful request, or a failure (timeout, connection, HTTP, other)
fetch_news(country, response) ==
    IF response.kind = "ok" THEN Normalize(response.articles, country)
    ELSE << >>

----------------------------------------------------------------------------
(* The adapters and the analyzers called on their own                      *)

\* confidences the sentiment pipeline reports, in 1/(10*Scale) units
Confidences == { 0, 69995, 70004, 99996, 10 * Scale }

SentimentOutcomes ==
    { SentimentOutcome("raise", "NEGATIVE", 0) }
    \cup { SentimentOutcome("ok", l, c) :
               l \in {"POSITIVE", "NEGATIVE"}, c \in Confidences }

ClassifierOutcomes ==
    { ClassifierOutcome("raise", << >>), ClassifierOutcome("ok", << >>) }
    \cup { ClassifierOutcome("ok", << c >>) : c \in CategorySet }

\* records handed to analyze_news: no title key, None, '' and a title
AnalyzerNews ==
    { [ulke |-> "us", url |-> <<"u1">>],
      [ulke |-> "us", baslik |-> NullText, url |-> <<"u1">>],
      [ulke |-> "us", baslik |-> EmptyText, url |-> <<"u1">>],
      [ulke |-> "us", baslik |-> <<"a">>, url |-> <<"u1">>] }

\* the scorer injected into NewsAnalyzer: the adapter of main.py, or an
\* implementation of SentimentAnalyzerInterface that raises, returns None
\* or returns a text
InjectedScorers == { "adapter", "raises", "none", "text" }

\* the classifier injected: the adapter of main.py, or an implementation of
\* CategoryClassifierInterface that raises, returns None or returns ''
InjectedClassifiers == { "adapter", "raises", "none", "empty" }

ScorerResult(call) ==
    IF call.scorer = "adapter"
    THEN analyze(call.news.baslik, call.sLoaded, call.sOut)
    ELSE IF call.scorer = "raises" THEN Raised(0)
    ELSE IF call.scorer = "none" THEN ReturnedNone(0)
    ELSE ReturnedJunk(0)

ClassifierResult(call) ==
    IF call.classifier = "adapter"
    THEN classify(call.news.baslik, call.cLoaded, call.cOut)
    ELSE IF call.classifier = "raises" THEN Raised("")
    ELSE IF call.classifier = "none" THEN ReturnedNone("")
    ELSE Returned("")

InitAdapters ==
    /\ store = << >>
    /\ tableExists = FALSE
    /\ lastCall = NoCall
    /\ riskCall = NoRisk
    /\ PipeIdle
    /\ LibIdle
    /\ adapterCall \in
         [fn : {"none"}, news : AnalyzerNews,
          sLoaded : BOOLEAN, sOut : SentimentOutcomes,
          cLoaded : BOOLEAN, cOut : ClassifierOutcomes,
          scorer : InjectedScorers, classifier : InjectedClassifiers,
          fails : BOOLEAN,
          result : { Returned("none") }]

CallText == Get(adapterCall.news, "baslik", NullText)

\* sentiment_analyzer.analyze(text)
CallAnalyze ==
    /\ adapterCall.fn = "none"
    /\ adapterCall' =
         [adapterCall EXCEPT
            !.fn = "analyze",
            !.result = analyze(CallText, adapterCall.sLoaded,
                               adapterCall.sOut)]
    /\ UNCHANGED <<store, tableExists, lastCall, riskCall>>
    /\ UNCHANGED pipeVars
    /\ UNCHANGED libVars

\* category_classifier.classify(text)
CallClassify ==
    /\ adapterCall.fn = "none"
    /\ adapterCall' =
         [adapterCall EXCEPT
            !.fn = "classify",
            !.result = classify(CallText, adapterCall.cLoaded,
                                adapterCall.cOut)]
    /\ UNCHANGED <<store, tableExists, lastCall, riskCall>>
    /\ UNCHANGED pipeVars
    /\ UNCHANGED libVars

\* analyzer.analyze_news(news); every path of it returns
CallAnalyzeNews ==
    /\ adapterCall.fn = "none"
    /\ adapterCall' =
         [adapterCall EXCEPT
            !.fn = "analyze_news",
            !.result =
                Returned(analyze_news(
                    adapterCall.news,
                    IF "baslik" \in DOMAIN adapterCall.news
                    THEN ScorerResult(adapterCall) ELSE ReturnedNone(0),
                    IF "baslik" \in DOMAIN adapterCall.news
                    THEN ClassifierResult(adapterCall) ELSE ReturnedNone(""),
                    adapterCall.fails))]
    /\ UNCHANGED <<store, tableExists, lastCall, riskCall>>
    /\ UNCHANGED pipeVars
    /\ UNCHANGED libVars

\* NewsAnalyzer.analyze_article(baslik) of main_old; every path returns
CallAnalyzeArticle ==
    /\ adapterCall.fn = "none"
    /\ adapterCall' =
         [adapterCall EXCEPT
            !.fn = "analyze_article",
            !.result =
                Returned(analyze_article(CallText, adapterCall.sLoaded,
                                         adapterCall.sOut,
                                         adapterCall.cLoaded,
                                         adapterCall.cOut,
                                         adapterCall.fails))]
    /\ UNCHANGED <<store, tableExists, lastCall, riskCall>>
    /\ UNCHANGED pipeVars
    /\ UNCHANGED libVars

NextAdapters ==
    CallAnalyze \/ CallClassify \/ CallAnalyzeNews \/ CallAnalyzeArticle

SpecAdapters == InitAdapters /\ [][NextAdapters]_vars

----------------------------------------------------------------------------
(* The two ingestion programs: main() of src/main.py (one run) and          *)
(* main_loop() of src/main_old.py (cycles until interrupted)               *)

\* the first two keys of CountryConfig.codes / Config.COUNTRIES, in order
CountryOrder == << "us", "kr" >>

Countries == { CountryOrder[i] : i \in 1..Len(CountryOrder) }

\* the next key the loop of main() takes
NextCountry(left) ==
    CountryOrder[CHOOSE i \in 1..Len(CountryOrder) :
                     /\ CountryOrder[i] \in left
                     /\ \A j \in 1..(i - 1) : CountryOrder[j] \notin left]

Absent == << "ABSENT" >>    \* the key is not in the article

RawArticle(t, u) ==
    Merge(IF t = Absent THEN << >> ELSE [title |-> t],
          IF u = Absent THEN << >> ELSE [url |-> u])

\* articles of a NewsAPI response: a headline with its url, the same with
\* the title missing, the title empty, the url missing, the url empty, and
\* with the removal marker in the title
RawArticles ==
    { RawArticle(<<"a">>, <<"u1">>),
      RawArticle(Absent, <<"u1">>), RawArticle(EmptyText, <<"u1">>),
      RawArticle(<<"a">>, Absent), RawArticle(<<"a">>, EmptyText),
      RawArticle(<<"a", Marker>>, <<"u1">>) }

Responses ==
    { [kind |-> "ok", articles |-> a] : a \in SeqsUpTo(RawArticles, MaxNews) }
    \cup { [kind |-> "timeout", articles |-> << >>] }

\* what requests.get / raise_for_status / response.json() do for one
\* country: the article list arrives, or one of the exceptions is raised
FetchKinds == { "ok", "timeout", "connection", "http", "json", "other" }

FetchOutcome(kind, articles) == [kind |-> kind, articles |-> articles]

\* article lists a successful request returns
FetchedLists ==
    { << >>,
      << RawArticle(<<"a">>, <<"u1">>) >>,
      << RawArticle(<<"a", Marker>>, <<"u1">>), RawArticle(<<"a">>, <<"u1">>) >> }

FetchOutcomes ==
    { FetchOutcome("ok", a) : a \in FetchedLists }
    \cup { FetchOutcome(k, << >>) : k \in FetchKinds \ {"ok"} }

\* (mutant) without the last handler, except Exception
NewsCollector_fetch_news_no_catch_all(has_api_key, outcome) ==
    IF ~has_api_key THEN Returned(<< >>)
    ELSE IF outcome.kind = "ok" THEN Returned(outcome.articles)
    ELSE IF outcome.kind \in {"timeout", "connection", "http", "json"}
    THEN Returned(<< >>)
    ELSE Raised(<< >>)

\* (mutant) the handler of requests.exceptions.Timeout hands the list on
NewsCollector_fetch_news_timeout_passes(has_api_key, outcome) ==
    IF ~has_api_key THEN Returned(<< >>)
    ELSE IF outcome.kind \in {"ok", "timeout"} THEN Returned(outcome.articles)
    ELSE Returned(<< >>)

\* NewsCollector.fetch_news
NewsCollector_fetch_news(has_api_key, outcome) ==
    IF ~has_api_key THEN Returned(<< >>)
    ELSE IF outcome.kind = "ok" THEN Returned(outcome.articles)
    ELSE IF outcome.kind = "timeout" THEN Returned(<< >>)
    ELSE IF outcome.kind = "connection" THEN Returned(<< >>)
    ELSE IF outcome.kind = "http" THEN Returned(<< >>)
    ELSE IF outcome.kind = "json" THEN Returned(<< >>)
    ELSE Returned(<< >>)

\* all_news[country] as either loop of fetch_all_countries sets it: the
\* list of the fetch, [] when the fetch (the future) raised
EntryOf(fetched) == IF fetched.raised THEN << >> ELSE fetched.value

\* NewsCollector.fetch_all_countries.  first[c] is what the request of the
\* pool worker of country c does; poolFails says that the with block raises
\* (the pool, a submit, as_completed), and then every country is fetched
\* again, in turn, where the request does again[c].
fetch_all_countries(has_api_key, first, poolFails, again) ==
    Returned([c \in Countries |->
                 EntryOf(NewsCollector_fetch_news(
                             has_api_key,
                             IF poolFails THEN again[c] ELSE first[c]))])

\* what happens while one article is analyzed during a run: what the two
\* pipelines answer, and whether a statement outside the guarded calls raises
RunOutcome(sOut, cOut, fails) == [s |-> sOut, c |-> cOut, fails |-> fails]

RunOutcomes ==
    { RunOutcome(SentimentOutcome("raise", "NEGATIVE", 0),
                 ClassifierOutcome("raise", << >>), FALSE),
      RunOutcome(SentimentOutcome("ok", "NEGATIVE", 99996),
                 ClassifierOutcome("ok", << categories[1], categories[2] >>),
                 FALSE),
      RunOutcome(SentimentOutcome("ok", "POSITIVE", 69995),
                 ClassifierOutcome("ok", << categories[2], categories[1] >>),
                 FALSE),
      RunOutcome(SentimentOutcome("ok", "NEGATIVE", 99996),
                 ClassifierOutcome("ok", << categories[1], categories[2] >>),
                 TRUE) }

\* the articles of a fetched list that process_articles has not looked at
\* yet: they are drawn when its loop reaches them
Unread == << "unread" >>

\* what the requests of main_loop()'s collector do during a run (its API
\* key is configured)
RunFetchKinds == { "ok", "timeout" }

\* "KRITIK" in news['risk_seviyesi']
ContainsKritik(risk_seviyesi) == risk_seviyesi \in { "KRITIK", " KRITIK" }

\* the loop over processed that reports critical records (main_loop):
\* how many it reports
CriticalReports(processed) ==
    Cardinality({ i \in 1..Len(processed) :
                    ContainsKritik(processed[i].risk_seviyesi) })

RunEnds ==
    /\ prog' = "none"
    /\ pc' = "idle"
    /\ sentiment_loaded' = FALSE
    /\ classifier_loaded' = FALSE
    /\ pending' = {}
    /\ cur' = "none"
    /\ consumed' = 0
    /\ all_raw_news' = << >>
    /\ analyzed_news' = << >>
    /\ all_news' = << >>
    /\ total_processed' = 0
    /\ critical_count' = 0

\* main(), steps 1-4: settings, repository.init_database() (return False
\* when it fails), the two adapters (each loads its pipeline or keeps None)
MainStart ==
    \E connOk \in BOOLEAN, sl \in BOOLEAN, cl \in BOOLEAN :
        /\ prog = "none"
        /\ tableExists' = (tableExists \/ connOk)
        /\ IF connOk
           THEN /\ prog' = "main"
                /\ pc' = "fetch"
                /\ sentiment_loaded' = sl
                /\ classifier_loaded' = cl
                /\ pending' = Countries
                /\ exited' = "none"
                /\ UNCHANGED <<cur, consumed, all_raw_news, analyzed_news>>
           ELSE /\ exited' = "returned"
                /\ UNCHANGED <<prog, pc, sentiment_loaded, classifier_loaded,
                               pending, cur, consumed, all_raw_news,
                               analyzed_news>>
        /\ UNCHANGED cycleVars
        /\ UNCHANGED <<store, lastCall, riskCall, adapterCall>>
        /\ UNCHANGED libVars

\* main(), step 5: one iteration of the loop over settings.countries.codes;
\* after the last one, return False when nothing was fetched
MainFetch ==
    \E response \in Responses :
        LET country == NextCountry(pending)
            fetched == all_raw_news \o fetch_news(country, response)
        IN  /\ prog = "main"
            /\ pc = "fetch"
            /\ Len(all_raw_news) + Len(response.articles) <= MaxNews
            /\ IF pending # {country}
               THEN /\ pending' = pending \ {country}
                    /\ all_raw_news' = fetched
                    /\ UNCHANGED <<prog, pc, sentiment_loaded,
                                   classifier_loaded, cur, consumed,
                                   analyzed_news, exited>>
                    /\ UNCHANGED cycleVars
               ELSE IF fetched = << >>
               THEN RunEnds /\ exited' = "returned"
               ELSE /\ pending' = {}
                    /\ all_raw_news' = fetched
                    /\ pc' = "analyze"
                    /\ UNCHANGED <<prog, sentiment_loaded, classifier_loaded,
                                   cur, consumed, analyzed_news, exited>>
                    /\ UNCHANGED cycleVars
            /\ UNCHANGED <<store, tableExists, lastCall, riskCall,
                           adapterCall>>
            /\ UNCHANGED libVars

\* main(), step 6: one iteration of the loop of analyze_batch
MainAnalyze ==
    \E o \in RunOutcomes :
        LET news == all_raw_news[Len(analyzed_news) + 1]
            result == analyze_news(
                          news,
                          analyze(news.baslik, sentiment_loaded, o.s),
                          classify(news.baslik, classifier_loaded, o.c),
                          o.fails)
        IN  /\ prog = "main"
            /\ pc = "analyze"
            /\ analyzed_news' = Append(analyzed_news, result)
            /\ pc' = IF Len(analyzed_news') = Len(all_raw_news)
                     THEN "store" ELSE "analyze"
            /\ UNCHANGED <<prog, sentiment_loaded, classifier_loaded, pending,
                           cur, consumed, all_raw_news, exited>>
            /\ UNCHANGED cycleVars
            /\ UNCHANGED <<store, tableExists, lastCall, riskCall,
                           adapterCall>>
            /\ UNCHANGED libVars

\* main(), steps 7-8: repository.add_news(analyzed_news), the statistics,
\* the return
MainStore ==
    \E connOk \in BOOLEAN :
        LET out == add_news(store, tableExists, analyzed_news, connOk)
        IN  /\ prog = "main"
            /\ pc = "store"
            /\ store' = out.rows
            /\ RunEnds
            /\ exited' = "returned"
            /\ UNCHANGED <<tableExists, lastCall, riskCall, adapterCall>>
            /\ UNCHANGED libVars

\* import of main_old (sentiment_pipe, then classifier, in one try) and the
\* head of main_loop(): db.init_db(), which swallows its failure; the
\* program stands at the head of while True
OldStart ==
    \E connOk \in BOOLEAN,
       loaded \in { <<FALSE, FALSE>>, <<TRUE, FALSE>>, <<TRUE, TRUE>> } :
        /\ prog = "none"
        /\ tableExists' = (tableExists \/ connOk)
        /\ prog' = "old"
        /\ pc' = "top"
        /\ sentiment_loaded' = loaded[1]
        /\ classifier_loaded' = loaded[2]
        /\ exited' = "none"
        /\ UNCHANGED <<pending, cur, consumed, all_raw_news, analyzed_news>>
        /\ UNCHANGED cycleVars
        /\ UNCHANGED <<store, lastCall, riskCall, adapterCall>>
        /\ UNCHANGED libVars

\* while True: iteration += 1, and the try of the cycle body is entered
OldEnterCycle ==
    /\ prog = "old"
    /\ pc = "top"
    /\ pc' = "cycle"
    /\ UNCHANGED <<prog, sentiment_loaded, classifier_loaded, pending, cur,
                   consumed, all_raw_news, analyzed_news, exited>>
    /\ UNCHANGED cycleVars
    /\ UNCHANGED <<store, tableExists, lastCall, riskCall, adapterCall>>
    /\ UNCHANGED libVars

\* collector.fetch_all_countries(): all_news has one entry per country, the
\* list its fetch returned; total_processed = 0, critical_count = 0
OldFetchAll ==
    \E kinds \in [Countries -> RunFetchKinds] :
        LET first == [c \in Countries |-> FetchOutcome(kinds[c], Unread)]
            fetched == fetch_all_countries(TRUE, first, FALSE, first)
        IN  /\ prog = "old"
            /\ pc = "cycle"
            /\ all_news' = [c \in Countries |->
                               FetchOutcome(kinds[c], fetched.value[c])]
            /\ total_processed' = 0
            /\ critical_count' = 0
            /\ pending' = Countries
            /\ pc' = "country"
            /\ UNCHANGED <<prog, sentiment_loaded, classifier_loaded, cur,
                           consumed, all_raw_news, analyzed_news, exited>>
            /\ UNCHANGED <<store, tableExists, lastCall, riskCall,
                           adapterCall>>
            /\ UNCHANGED libVars

\* for country_code, articles in all_news.items(): entries are in the
\* order the fetches completed
OldTakeCountry ==
    \E country_code \in pending :
        /\ prog = "old"
        /\ pc = "country"
        /\ cur' = country_code
        /\ consumed' = 0
        /\ analyzed_news' = << >>
        /\ pc' = "articles"
        /\ UNCHANGED <<prog, sentiment_loaded, classifier_loaded, pending,
                       all_raw_news, exited>>
        /\ UNCHANGED cycleVars
        /\ UNCHANGED <<store, tableExists, lastCall, riskCall, adapterCall>>
        /\ UNCHANGED libVars

\* one iteration of the loop of process_articles
OldProcessArticle ==
    \E article \in RawArticles, o \in RunOutcomes :
        /\ prog = "old"
        /\ pc = "articles"
        /\ all_news[cur].articles = Unread
        /\ consumed < MaxNews
        /\ consumed' = consumed + 1
        /\ analyzed_news' =
             analyzed_news \o process_article(article, cur, sentiment_loaded,
                                              o.s, classifier_loaded, o.c,
                                              o.fails)
        /\ UNCHANGED <<prog, pc, sentiment_loaded, classifier_loaded, pending,
                       cur, all_raw_news, exited>>
        /\ UNCHANGED cycleVars
        /\ UNCHANGED <<store, tableExists, lastCall, riskCall, adapterCall>>
        /\ UNCHANGED libVars

\* the articles of the country are exhausted: if processed:
\* count = db.insert_news(processed), total_processed += count, and the
\* critical records of processed are reported; then the next country, or
\* the summary and time.sleep(bekleme)
OldInsert ==
    \E connOk \in BOOLEAN :
        LET out == insert_news(store, tableExists, analyzed_news, connOk)
        IN  /\ prog = "old"
            /\ pc = "articles"
            /\ store' = out.rows
            /\ total_processed' = total_processed + out.ret
            /\ critical_count' = critical_count
                                 + CriticalReports(analyzed_news)
            /\ pending' = pending \ {cur}
            /\ pc' = IF pending' = {} THEN "sleep" ELSE "country"
            /\ cur' = "none"
            /\ consumed' = 0
            /\ analyzed_news' = << >>
            /\ UNCHANGED <<prog, sentiment_loaded, classifier_loaded,
                           all_raw_news, all_news, exited>>
            /\ UNCHANGED <<tableExists, lastCall, riskCall, adapterCall>>
            /\ UNCHANGED libVars

\* time.sleep(bekleme) returns: back to the head of while True
OldSleep ==
    /\ prog = "old"
    /\ pc = "sleep"
    /\ pc' = "top"
    /\ UNCHANGED <<prog, sentiment_loaded, classifier_loaded, pending, cur,
                   consumed, all_raw_news, analyzed_news, exited>>
    /\ UNCHANGED cycleVars
    /\ UNCHANGED <<store, tableExists, lastCall, riskCall, adapterCall>>
    /\ UNCHANGED libVars

\* a statement of the cycle body outside the guarded fetch and the guarded
\* country loop raises (the prints and log lines before the fetch, the
\* summary, the sleep): control is in the handler except Exception of the
\* loop, at its log and print statements
OldBodyFails ==
    /\ prog = "old"
    /\ pc \in { "cycle", "sleep" }
    /\ pc' = "recover_log"
    /\ UNCHANGED <<prog, sentiment_loaded, classifier_loaded, pending, cur,
                   consumed, all_raw_news, analyzed_news, exited>>
    /\ UNCHANGED cycleVars
    /\ UNCHANGED <<store, tableExists, lastCall, riskCall, adapterCall>>
    /\ UNCHANGED libVars

\* the handler has logged and enters try: time.sleep(60)
OldRecoverySleep ==
    /\ prog = "old"
    /\ pc = "recover_log"
    /\ pc' = "recover_sleep"
    /\ UNCHANGED <<prog, sentiment_loaded, classifier_loaded, pending, cur,
                   consumed, all_raw_news, analyzed_news, exited>>
    /\ UNCHANGED cycleVars
    /\ UNCHANGED <<store, tableExists, lastCall, riskCall, adapterCall>>
    /\ UNCHANGED libVars

\* time.sleep(60) returns: back to the head of while True
OldRecovered ==
    /\ prog = "old"
    /\ pc = "recover_sleep"
    /\ pc' = "top"
    /\ UNCHANGED <<prog, sentiment_loaded, classifier_loaded, pending, cur,
                   consumed, all_raw_news, analyzed_news, exited>>
    /\ UNCHANGED cycleVars
    /\ UNCHANGED <<store, tableExists, lastCall, riskCall, adapterCall>>
    /\ UNCHANGED libVars

\* KeyboardInterrupt while control is inside the try of the cycle body or
\* inside the try around time.sleep(60): the handler breaks the loop and
\* main_loop returns
OldInterrupt ==
    /\ prog = "old"
    /\ pc \in { "cycle", "country", "articles", "sleep", "recover_sleep" }
    /\ RunEnds
    /\ exited' = "clean"
    /\ UNCHANGED <<store, tableExists, lastCall, riskCall, adapterCall>>
    /\ UNCHANGED libVars

\* KeyboardInterrupt while control is at iteration += 1 (outside the try) or
\* at the log and print statements of the handler except Exception (before
\* its inner try): no handler encloses these statements and the exception
\* leaves main_loop
OldInterruptEscapes ==
    /\ prog = "old"
    /\ pc \in { "top", "recover_log" }
    /\ RunEnds
    /\ exited' = "escaped"
    /\ UNCHANGED <<store, tableExists, lastCall, riskCall, adapterCall>>
    /\ UNCHANGED libVars

NextMain == MainStart \/ MainFetch \/ MainAnalyze \/ MainStore

NextOld ==
    \/ OldStart \/ OldEnterCycle \/ OldFetchAll \/ OldTakeCountry
    \/ OldProcessArticle \/ OldInsert \/ OldSleep \/ OldBodyFails
    \/ OldRecoverySleep \/ OldRecovered \/ OldInterrupt
    \/ OldInterruptEscapes

Next == NextMain \/ NextOld

Spec == Init /\ [][Next]_vars

\* main_loop() alone, its steps taken as long as no exception stops them:
\* every call of a cycle returns (requests and futures carry timeouts)
SpecCycle ==
    /\ Init
    /\ [][NextOld]_vars
    /\ WF_vars(OldFetchAll)
    /\ WF_vars(OldTakeCountry)
    /\ WF_vars(OldInsert)

----------------------------------------------------------------------------
(* Claims about the ingestion programs, checked under Spec                 *)

\* the records analysis has produced in this run, and the stored rows
AnalyzedRecords == { analyzed_news[i] : i \in 1..Len(analyzed_news) }

StoredRows == { store[i] : i \in 1..Len(store) }

\* C4: every article whose title or url is missing or empty, or whose title
\* contains the removal marker, is dropped before scoring in every ingestion
\* path; so no scored record and no stored row has an empty title, an empty
\* url or the marker in its title.
C4_DroppedBeforeScoring ==
    \A r \in AnalyzedRecords \cup StoredRows :
        /\ ~Falsy(Get(r, "baslik", NullText))
        /\ ~Falsy(Get(r, "url", NullText))
        /\ ~Contains(Get(r, "baslik", NullText), Marker)

\* C8: every sentiment score attached to a record by analysis, and every
\* stored skor, lies in [-1.0, 1.0], on the success path and on the
\* fallback paths.
C8_ScoreInRange ==
    \A r \in AnalyzedRecords \cup StoredRows :
        "skor" \in DOMAIN r => (0 - Scale <= r.skor /\ r.skor <= Scale)

\* a run has stored a record scored -1.0 by the sentiment pipeline, while the
\* batch analyzed in the current run holds a fallback score
C8_Witness ==
    /\ \E row \in StoredRows : row.skor = 0 - Scale
    /\ \E r \in AnalyzedRecords : r.skor = 0

----------------------------------------------------------------------------
(* Claims about the adapters and analyzers, checked under SpecAdapters     *)

ScorerFailed ==
    \/ adapterCall.scorer = "raises"
    \/ /\ adapterCall.scorer = "adapter"
       /\ (~adapterCall.sLoaded \/ adapterCall.sOut.kind = "raise")

ClassifierFailed ==
    \/ adapterCall.classifier = "raises"
    \/ /\ adapterCall.classifier = "adapter"
       /\ (~adapterCall.cLoaded \/ adapterCall.cOut.kind = "raise")

\* C9: the category that classify, analyze_news (hence analyze_batch) or
\* analyze_article attaches is a member of the configured category set or
\* "Unknown", on every path.
C9_ClosedCategorySet ==
    /\ adapterCall.fn = "classify"
         => adapterCall.result.value \in CategorySet \cup {"Unknown"}
    /\ (adapterCall.fn = "analyze_news"
        /\ "kategori" \in DOMAIN adapterCall.result.value)
         => adapterCall.result.value.kategori \in CategorySet \cup {"Unknown"}
    /\ adapterCall.fn = "analyze_article"
         => adapterCall.result.value.kategori \in CategorySet \cup {"Unknown"}

\* C10: a failure of the sentiment model call (it raises, or the model is
\* not loaded) never leaves the scorer, which returns 0.0; a failing
\* classification call yields "Unknown"; NewsAnalyzer, whose scorer or
\* classifier failed, still returns a record with a score and a category.
C10_FailuresDoNotPropagate ==
    /\ adapterCall.fn = "analyze"
         => /\ ~adapterCall.result.raised
            /\ ~adapterCall.result.none
            /\ (~adapterCall.sLoaded \/ adapterCall.sOut.kind = "raise")
                 => adapterCall.result.value = 0
    /\ adapterCall.fn = "classify"
         => /\ ~adapterCall.result.raised
            /\ ~adapterCall.result.none
            /\ (~adapterCall.cLoaded \/ adapterCall.cOut.kind = "raise")
                 => adapterCall.result.value = "Unknown"
    /\ (adapterCall.fn = "analyze_news" /\ ~Falsy(CallText))
         => /\ ~adapterCall.result.raised
            /\ {"skor", "kategori"} \subseteq DOMAIN adapterCall.result.value
            /\ ScorerFailed => adapterCall.result.value.skor = 0
            /\ (ClassifierFailed /\ ~adapterCall.fails
                /\ adapterCall.scorer # "text")
                 => adapterCall.result.value.kategori = "Unknown"
    /\ adapterCall.fn = "analyze_article"
         => /\ ~adapterCall.result.raised
            /\ (~adapterCall.sLoaded \/ adapterCall.sOut.kind = "raise")
                 => adapterCall.result.value.puan = 0
            /\ ((~adapterCall.cLoaded \/ adapterCall.cOut.kind = "raise")
                /\ ~adapterCall.fails)
                 => adapterCall.result.value.kategori = "Unknown"

\* the loaded sentiment pipeline raised on a headline and analyze returned 0.0
C10_Witness ==
    /\ adapterCall.fn = "analyze"
    /\ ~Falsy(CallText)
    /\ adapterCall.sLoaded
    /\ adapterCall.sOut.kind = "raise"
    /\ adapterCall.result = Returned(0)

----------------------------------------------------------------------------
(* NewsCollector of src/main_old.py called on its own                      *)

InitFetch ==
    /\ store = << >>
    /\ tableExists = FALSE
    /\ lastCall = NoCall
    /\ riskCall = NoRisk
    /\ adapterCall = NoAdapter
    /\ PipeIdle
    /\ utilCall = NoUtil
    /\ CacheIdle
    /\ connections = 0
    /\ fetchCall \in
         [fn : {"none"}, has_api_key : BOOLEAN,
          first : [Countries -> FetchOutcomes], poolFails : BOOLEAN,
          again : [Countries -> FetchOutcomes],
          fetched : { [c \in Countries |-> Returned(<< >>)] },
          result : { Returned([c \in Countries |-> << >>]) }]

\* the request that decides the entry of country c
DecidingOutcome(c) ==
    IF fetchCall.poolFails THEN fetchCall.again[c] ELSE fetchCall.first[c]

\* collector.fetch_all_countries(); fetched keeps what fetch_news returned
\* to the loop for each country
CallFetchAllCountries ==
    /\ fetchCall.fn = "none"
    /\ fetchCall' =
         [fetchCall EXCEPT
            !.fn = "fetch_all_countries",
            !.fetched = [c \in Countries |->
                            NewsCollector_fetch_news(fetchCall.has_api_key,
                                                     DecidingOutcome(c))],
            !.result = fetch_all_countries(fetchCall.has_api_key,
                                           fetchCall.first,
                                           fetchCall.poolFails,
                                           fetchCall.again)]
    /\ UNCHANGED <<store, tableExists, lastCall, riskCall, adapterCall,
                   utilCall>>
    /\ UNCHANGED cacheVars
    /\ UNCHANGED connections
    /\ UNCHANGED pipeVars

NextFetch == CallFetchAllCountries

SpecFetch == InitFetch /\ [][NextFetch]_vars

FetchFailed(c) == ~fetchCall.has_api_key \/ DecidingOutcome(c).kind # "ok"

\* C11: fetch_news never raises; fetch_all_countries never raises and
\* returns a map with exactly one entry per configured country, the empty
\* list for every country whose fetch failed (timeout, connection error,
\* HTTP error, malformed JSON, missing API key) and, for every other
\* country, the articles its own fetch returned.
C11_OneEntryPerCountry ==
    fetchCall.fn = "fetch_all_countries"
      => /\ \A c \in Countries : ~fetchCall.fetched[c].raised
         /\ ~fetchCall.result.raised
         /\ DOMAIN fetchCall.result.value = Countries
         /\ \A c \in Countries :
              fetchCall.result.value[c] =
                  IF FetchFailed(c) THEN << >>
                  ELSE DecidingOutcome(c).articles

\* the fetch of one country timed out, the fetch of another returned
\* articles: the map holds [] for the first and the articles for the second
C11_Witness ==
    /\ fetchCall.fn = "fetch_all_countries"
    /\ \E c, d \in Countries :
         /\ DecidingOutcome(c).kind = "timeout"
         /\ fetchCall.result.value[c] = << >>
         /\ ~FetchFailed(d)
         /\ fetchCall.result.value[d] # << >>

----------------------------------------------------------------------------
(* Claims about the cycle of main_loop, checked under SpecCycle and Spec   *)

TimedOut(c) == all_news[c].kind = "timeout"

InCycle == prog = "old" /\ pc \in { "country", "articles" }

\* one fetch of the cycle timed out, another returned its list
OneTimeoutOthersArrive ==
    /\ InCycle
    /\ \E c \in Countries : TimedOut(c)
    /\ \E c \in Countries : ~TimedOut(c)

\* the step that ends the work on country cur (insert and reports)
InsertStep == prog = "old" /\ pc = "articles" /\ pc' \in { "country", "sleep" }

ProcessedUrls == { analyzed_news[i].url : i \in 1..Len(analyzed_news) }

\* what the step does to the store for the country it ends
C12_InsertStepOK ==
    (InsertStep /\ OneTimeoutOthersArrive) =>
        IF TimedOut(cur)
        THEN store' = store /\ total_processed' = total_processed
        ELSE \/ store' = store /\ total_processed' = total_processed
             \/ /\ ProcessedUrls \subseteq Urls(store')
                /\ total_processed' - total_processed
                       = Cardinality(ProcessedUrls \ Urls(store))
                /\ Len(store') - Len(store)
                       = Cardinality(ProcessedUrls \ Urls(store))

FromFailedAnalysis(r) ==
    /\ Get(r, "kategori", "Unknown") = "Error"
    /\ Get(r, "risk_seviyesi", "Normal") \in { "HATA", " HATA" }

\* C13: an article whose analysis fails is skipped: no record is produced
\* for it and none is persisted, while the other articles of the batch are
\* analyzed and persisted.
C13_FailedArticleSkipped ==
    /\ \A r \in AnalyzedRecords : ~FromFailedAnalysis(r)
    /\ \A row \in StoredRows : ~FromFailedAnalysis(row)

\* the rows the step has added to the store that are Critical
NewCriticalRows ==
    { i \in (Len(store) + 1)..Len(store') :
        ContainsKritik(store'[i].risk_seviyesi) }

\* C14: after persisting, a Critical alert is raised for exactly the records
\* newly inserted in the cycle whose risk level is Critical: one for each,
\* none for a record skipped as a duplicate, none for the records of a batch
\* whose insert failed.
C14_AlertsExactlyNewCritical ==
    [][InsertStep =>
          critical_count' - critical_count = Cardinality(NewCriticalRows)]_vars

\* C15: once main_loop has entered its loop it stops if and only if
\* KeyboardInterrupt arrives; an exception of the cycle body is logged and
\* followed by the recovery sleep and a new cycle; the stop signal, at
\* whatever point of the loop it arrives, ends the loop cleanly: no
\* exception leaves main_loop.
C15_StopIsClean ==
    /\ exited # "escaped"
    /\ (prog = "old" => exited = "none")

----------------------------------------------------------------------------
(* More claims about the storage layer, checked under SpecStore            *)

IsReadCall ==
    lastCall.op \in { "get_all_news", "get_news_by_country",
                      "get_news_by_category", "get_recent_news" }

\* the rows of the store the read asks for
Matches ==
    { i \in 1..Len(lastCall.before) :
        CASE lastCall.op = "get_news_by_country"
               -> lastCall.before[i].ulke = lastCall.arg
          [] lastCall.op = "get_news_by_category"
               -> lastCall.before[i].kategori = lastCall.arg
          [] lastCall.op = "get_recent_news"
               -> i > Len(lastCall.before) - lastCall.arg
          [] OTHER -> TRUE }

\* C16: get_all_news, get_news_by_country, get_news_by_category and
\* get_recent_news never raise and never modify the store; each returns an
\* empty list when nothing matches, when the connection cannot be opened,
\* and when the query fails because the table has not been initialised.
C16_ReadsNeverRaise ==
    IsReadCall =>
        /\ ~lastCall.raised
        /\ store = lastCall.before
        /\ (Matches = {} \/ ~lastCall.opened \/ ~lastCall.hadTable)
               => lastCall.result = << >>

\* record i of the batch of the last call can be inserted when its turn
\* comes: its values can be bound, its required fields are there, and its
\* url is carried by no stored record and no earlier record of the batch
Insertable(i) ==
    /\ BindOK(CallRow(i))
    /\ NotNullOK(CallRow(i))
    /\ CallRow(i).url \notin Urls(lastCall.before)
    /\ \A j \in 1..(i - 1) : CallRow(j).url # CallRow(i).url

\* some record of the batch fails to insert
SomeRecordFails == \E i \in 1..CallLen : ~Insertable(i)

\* C17: in add_news and insert_news the failure of one record of a batch (a
\* duplicate or any other per-record error) neither prevents the remaining
\* records from being inserted and committed nor undoes the records
\* inserted before it: every record that can be inserted is stored when the
\* call is over.
C17_RecordFailuresAreIsolated ==
    (IsStoreCall /\ ReachedTable /\ SomeRecordFails)
        => \A i \in 1..CallLen :
             Insertable(i) => \E m \in 1..Len(store) : store[m] = CallRow(i)

\* every stored record stays where it is, with the values it has
StoreOnlyGrows ==
    /\ Len(store) <= Len(store')
    /\ \A i \in 1..Len(store) : store'[i] = store[i]

\* C18: stored records are immutable and never deleted: whatever
\* init_database, add_news, insert_news and the reads do, every record once
\* stored is still stored with the same values; init_database called again
\* on a populated store succeeds and changes no record.
C18_StoredRecordsStay ==
    /\ [][StoreOnlyGrows]_vars
    /\ [](lastCall.op = "init_database" =>
             /\ store = lastCall.before
             /\ lastCall.opened => (lastCall.result /\ tableExists)
             /\ ~lastCall.raised)

\* init_database has been called again, on a store that holds two records,
\* and has succeeded
C18_Witness ==
    /\ lastCall.op = "init_database"
    /\ lastCall.opened /\ lastCall.hadTable
    /\ lastCall.result
    /\ Len(store) = 2
    /\ store = lastCall.before

----------------------------------------------------------------------------
(* AnomalyDetector and TrendPredictor of src/utils.py called on their own  *)

RECURSIVE SumSeq(_)
SumSeq(q) == IF q = << >> THEN 0 ELSE Head(q) + SumSeq(Tail(q))

\* n * (values[i] - mean): the deviation from the mean, kept whole
Dev(values, i) == Len(values) * values[i] - SumSeq(values)

\* n^2 * (n - 1) * variance, with the variance pandas computes (ddof = 1)
SumSqDev(values) ==
    SumSeq([i \in 1..Len(values) |-> Dev(values, i) * Dev(values, i)])

\* (mutant) the z-scores are taken with the population deviation (ddof = 0)
detect_spikes_population(values, has_column, threshold10) ==
    IF values = << >> \/ ~has_column
    THEN [flagged |-> FALSE, is_anomaly |-> << >>, divided |-> FALSE]
    ELSE IF Len(values) > 1 /\ SumSqDev(values) = 0
    THEN [flagged |-> TRUE, is_anomaly |-> [i \in 1..Len(values) |-> FALSE],
          divided |-> FALSE]
    ELSE [flagged |-> TRUE,
          is_anomaly |->
              [i \in 1..Len(values) |->
                  /\ Len(values) > 1
                  /\ 100 * Len(values) * Dev(values, i) * Dev(values, i)
                         > threshold10 * threshold10 * SumSqDev(values)],
          divided |-> TRUE]

\* AnomalyDetector.detect_spikes on the column of scores; threshold10 is
\* the threshold in tenths.  flagged: the frame returned has the column
\* is_anomaly; divided: the division by std was executed (and the frame
\* has the column anomaly_score).  With one record std is NaN: it is not
\* equal to 0, the z-scores are NaN and no comparison with them is true.
detect_spikes(values, has_column, threshold10) ==
    IF values = << >> \/ ~has_column
    THEN [flagged |-> FALSE, is_anomaly |-> << >>, divided |-> FALSE]
    ELSE IF Len(values) > 1 /\ SumSqDev(values) = 0
    THEN [flagged |-> TRUE, is_anomaly |-> [i \in 1..Len(values) |-> FALSE],
          divided |-> FALSE]
    ELSE [flagged |-> TRUE,
          is_anomaly |->
              [i \in 1..Len(values) |->
                  /\ Len(values) > 1
                  /\ 100 * (Len(values) - 1) * Dev(values, i) * Dev(values, i)
                         > threshold10 * threshold10 * SumSqDev(values)],
          divided |-> TRUE]

\* scores of the records of a snapshot, in 1/Scale units: -0.0001, 0.0 and
\* 0.0001 (the z-scores do not depend on the unit)
SnapshotScores == { 0 - 1, 0, 1 }

\* thresholds handed to detect_spikes: 1.0 and the default 2.0
Thresholds10 == { 10, 20 }

DetectCalls ==
    [fn : {"detect_spikes"}, values : SeqsUpTo(SnapshotScores, MaxRows),
     has_column : BOOLEAN, threshold10 : Thresholds10, done : {FALSE},
     result : { [flagged |-> FALSE, is_anomaly |-> << >>,
                 divided |-> FALSE] }]

\* TrendPredictor.predict_sentiment_trend.  columns: the columns of the
\* frame; ulke: the country of each record; dates: what the column tarih
\* holds ("iso" dates, "junk" that pd.to_datetime rejects, "null" values).
\* The records of the country are the recent ones when their dates parse.
CountryData(ulke, country) == SelectSeq(ulke, LAMBDA c : c = country)

predict_sentiment_trend(columns, ulke, dates, country) ==
    IF "ulke" \notin columns
    THEN [status |-> "error", raised |-> FALSE]       \* KeyError, ulke
    ELSE IF "tarih" \notin columns
    THEN [status |-> "error", raised |-> FALSE]       \* KeyError, tarih
    ELSE IF Len(CountryData(ulke, country)) < 5
    THEN [status |-> "insufficient_data", raised |-> FALSE]
    ELSE IF dates = "junk"
    THEN [status |-> "error", raised |-> FALSE]       \* pd.to_datetime
    ELSE IF dates = "null"
    THEN [status |-> "no_recent_data", raised |-> FALSE]
    ELSE IF "skor" \notin columns
    THEN [status |-> "error", raised |-> FALSE]       \* KeyError, skor
    ELSE [status |-> "success", raised |-> FALSE]

\* the column skor of the records of the country, oldest first
\* (sort_values('tarih'): the frame holds the records in the order they
\* were stored)
CountryScores(ulke, skor, country) ==
    LET at == SelectSeq([i \in 1..Len(ulke) |-> i],
                        LAMBDA i : ulke[i] = country)
    IN  [k \in 1..Len(at) |-> skor[at[k]]]

\* series.rolling(window=window).mean().iloc[-1]: the mean of the last
\* window values (as their sum), NaN when the series has fewer
RollingMeanLast(scores, window) ==
    IF Len(scores) < window
    THEN [defined |-> FALSE, sum |-> 0]
    ELSE [defined |-> TRUE,
          sum |-> SumSeq(SubSeq(scores, Len(scores) - window + 1,
                                Len(scores)))]

\* the averages and the label of the "success" result; a comparison with
\* NaN is False
trend_averages(scores) ==
    LET ma_7 == RollingMeanLast(scores, 7)
        ma_30 == RollingMeanLast(scores, 30)
    IN  [ma_7 |-> ma_7, ma_30 |-> ma_30,
         trend |-> IF /\ ma_7.defined
                      /\ ma_30.defined
                      /\ 30 * ma_7.sum > 7 * ma_30.sum
                   THEN "Yukselis" ELSE "Dusus"]

NoAverages ==
    [ma_7 |-> [defined |-> FALSE, sum |-> 0],
     ma_30 |-> [defined |-> FALSE, sum |-> 0], trend |-> "none"]

\* the scores of the records of a frame, by position: all alike, rising,
\* falling
TrendScores ==
    { [i \in 1..MaxRows |-> 0], [i \in 1..MaxRows |-> i],
      [i \in 1..MaxRows |-> MaxRows - i] }

AllColumns == { "ulke", "tarih", "skor" }

\* the columns of a snapshot: those of the table, or those of a frame that
\* lacks one of them
ColumnSets == { AllColumns } \cup { AllColumns \ {c} : c \in AllColumns }

\* pd.DataFrame(): no record and no column (what verileri_yukle of
\* src/app.py returns when the table cannot be read)
EmptyFrame ==
    [fn |-> "predict_sentiment_trend", columns |-> {}, ulke |-> << >>,
     dates |-> "iso", country |-> "us", done |-> FALSE,
     skor |-> << >>, averages |-> NoAverages,
     result |-> [status |-> "none", raised |-> FALSE]]

TrendCalls ==
    [fn : {"predict_sentiment_trend"}, columns : ColumnSets,
     ulke : SeqsUpTo(Countries, MaxRows), dates : {"iso", "junk", "null"},
     country : Countries, done : {FALSE},
     skor : TrendScores, averages : { NoAverages },
     result : { [status |-> "none", raised |-> FALSE] }]
    \cup { EmptyFrame }

\* RiskScoringEngine.calculate_risk_score.  A record of the snapshot is
\* [ulke, skor, critical]: skor in tenths (RiskUnit), critical says that
\* the title holds one of CRITICAL_KEYWORDS.
RiskUnit == 10

\* the records of the snapshot that share the country of record i
GroupOf(rows, i) == SelectSeq(rows, LAMBDA r : r.ulke = rows[i].ulke)

GroupScores(rows, i) ==
    [k \in 1..Len(GroupOf(rows, i)) |-> GroupOf(rows, i)[k].skor]

\* groupby('ulke')['skor'].transform('std') is NaN for a country that has
\* one record (ddof = 1), and then so are the sum, its clip and the cut
VolatilityIsNaN(rows, i) == Len(GroupOf(rows, i)) = 1

\* risk_score <= cut for record i, before the clip.  With n records, m of
\* them of the country, the sum is
\*   40 * (skor + 1) / 2 + 30 * m / n + 20 * std + 10 * critical ;
\* the comparison is cleared of fractions and squared:
\*   std^2 = SumSqDev / (RiskUnit^2 * m^2 * (m - 1))
RiskScoreAtMost(rows, i, cut) ==
    LET n == Len(rows)
        m == Len(GroupOf(rows, i))
        rational == n * (2 * (rows[i].skor + RiskUnit)
                         + (IF rows[i].critical THEN 10 ELSE 0))
                    + 30 * m
        room == n * cut - rational
    IN  /\ room >= 0
        /\ 4 * n * n * SumSqDev(GroupScores(rows, i))
              <= room * room * m * m * (m - 1)

\* .clip(0, 100) and pd.cut(bins=[0, 20, 40, 60, 80, 100]): the intervals
\* are open on the left, so 0 falls in none of them
RiskCategoryOf(rows, i) ==
    IF VolatilityIsNaN(rows, i) THEN "NaN"
    ELSE IF RiskScoreAtMost(rows, i, 0) THEN "NaN"
    ELSE IF RiskScoreAtMost(rows, i, 20) THEN "Cok Dusuk"
    ELSE IF RiskScoreAtMost(rows, i, 40) THEN "Dusuk"
    ELSE IF RiskScoreAtMost(rows, i, 60) THEN "Orta"
    ELSE IF RiskScoreAtMost(rows, i, 80) THEN "Yuksek"
    ELSE "Kritik"

\* the columns risk_score (numeric: it is a number, which the clip keeps
\* in [0, 100]; otherwise NaN) and risk_category of the frame returned
calculate_risk_score(rows) ==
    [i \in 1..Len(rows) |->
        [numeric |-> ~VolatilityIsNaN(rows, i),
         risk_category |-> RiskCategoryOf(rows, i)]]

RiskCategories == { "Cok Dusuk", "Dusuk", "Orta", "Yuksek", "Kritik" }

RiskRows ==
    [ulke : Countries, skor : { 0 - RiskUnit, 0, RiskUnit },
     critical : BOOLEAN]

RiskScoreCalls ==
    [fn : {"calculate_risk_score"}, rows : SeqsUpTo(RiskRows, MaxSnapshot),
     done : {FALSE}, result : { << >> }]

\* ErrorHandler.retry(max_retries, delay) around a function whose k-th
\* invocation does outcomes[k]: it returns a value or raises an Exception.
\* attempt counts from 0 as in the loop; sleeps are the arguments of
\* time.sleep in order.  When range(max_retries) is exhausted the wrapper
\* falls off its end and returns None.
RECURSIVE retry_loop(_, _, _, _, _)
retry_loop(attempt, max_retries, delay, outcomes, sleeps) ==
    IF attempt >= max_retries
    THEN [invoked |-> attempt, sleeps |-> sleeps,
          result |-> ReturnedNone(None)]
    ELSE IF outcomes[attempt + 1].kind = "return"
    THEN [invoked |-> attempt + 1, sleeps |-> sleeps,
          result |-> Returned(outcomes[attempt + 1].value)]
    ELSE IF attempt = max_retries - 1
    THEN [invoked |-> attempt + 1, sleeps |-> sleeps,
          result |-> Raised(outcomes[attempt + 1].value)]
    ELSE retry_loop(attempt + 1, max_retries, delay, outcomes,
                    Append(sleeps, delay * (2 ^ attempt)))

retry(max_retries, delay, outcomes) ==
    retry_loop(0, max_retries, delay, outcomes, << >>)

\* what an invocation of the wrapped function does
AttemptOutcomes ==
    [kind : {"return"}, value : {"v1", "v2"}]
    \cup [kind : {"raise"}, value : {"e1", "e2"}]

RetryDelays == { 1, 3 }

RetryCalls ==
    [fn : {"retry"}, max_retries : 0..MaxRetries, delay : RetryDelays,
     outcomes : [1..MaxRetries -> AttemptOutcomes], done : {FALSE},
     result : { [invoked |-> 0, sleeps |-> << >>,
                 result |-> ReturnedNone(None)] }]

InitUtils ==
    /\ store = << >>
    /\ tableExists = FALSE
    /\ lastCall = NoCall
    /\ riskCall = NoRisk
    /\ adapterCall = NoAdapter
    /\ PipeIdle
    /\ fetchCall = NoFetch
    /\ CacheIdle
    /\ connections = 0
    /\ utilCall \in DetectCalls \cup TrendCalls \cup RiskScoreCalls
                    \cup RetryCalls

\* anomaly_detector.detect_spikes(df, column, threshold)
CallDetectSpikes ==
    /\ utilCall.fn = "detect_spikes"
    /\ ~utilCall.done
    /\ utilCall' =
         [utilCall EXCEPT
            !.done = TRUE,
            !.result = detect_spikes(utilCall.values, utilCall.has_column,
                                     utilCall.threshold10)]
    /\ UNCHANGED <<store, tableExists, lastCall, riskCall, adapterCall,
                   fetchCall>>
    /\ UNCHANGED cacheVars
    /\ UNCHANGED connections
    /\ UNCHANGED pipeVars

\* trend_predictor.predict_sentiment_trend(df, country)
CallPredictSentimentTrend ==
    /\ utilCall.fn = "predict_sentiment_trend"
    /\ ~utilCall.done
    /\ utilCall' =
         [utilCall EXCEPT
            !.done = TRUE,
            !.result = predict_sentiment_trend(utilCall.columns,
                                               utilCall.ulke, utilCall.dates,
                                               utilCall.country),
            !.averages =
                IF predict_sentiment_trend(utilCall.columns, utilCall.ulke,
                                           utilCall.dates,
                                           utilCall.country).status
                   = "success"
                THEN trend_averages(CountryScores(utilCall.ulke,
                                                  utilCall.skor,
                                                  utilCall.country))
                ELSE NoAverages]
    /\ UNCHANGED <<store, tableExists, lastCall, riskCall, adapterCall,
                   fetchCall>>
    /\ UNCHANGED cacheVars
    /\ UNCHANGED connections
    /\ UNCHANGED pipeVars

\* risk_engine.calculate_risk_score(df)
CallCalculateRiskScore ==
    /\ utilCall.fn = "calculate_risk_score"
    /\ ~utilCall.done
    /\ utilCall' =
         [utilCall EXCEPT
            !.done = TRUE,
            !.result = calculate_risk_score(utilCall.rows)]
    /\ UNCHANGED <<store, tableExists, lastCall, riskCall, adapterCall,
                   fetchCall>>
    /\ UNCHANGED cacheVars
    /\ UNCHANGED connections
    /\ UNCHANGED pipeVars

\* a call of a function decorated with @ErrorHandler.retry(max_retries,
\* delay)
CallRetry ==
    /\ utilCall.fn = "retry"
    /\ ~utilCall.done
    /\ utilCall' =
         [utilCall EXCEPT
            !.done = TRUE,
            !.result = retry(utilCall.max_retries, utilCall.delay,
                             utilCall.outcomes)]
    /\ UNCHANGED <<store, tableExists, lastCall, riskCall, adapterCall,
                   fetchCall>>
    /\ UNCHANGED cacheVars
    /\ UNCHANGED connections
    /\ UNCHANGED pipeVars

NextUtils ==
    \/ CallDetectSpikes \/ CallPredictSentimentTrend
    \/ CallCalculateRiskScore \/ CallRetry

SpecUtils == InitUtils /\ [][NextUtils]_vars

DetectDone == utilCall.fn = "detect_spikes" /\ utilCall.done

\* all scores of the snapshot are the same
AllIdentical ==
    \A i, j \in 1..Len(utilCall.values) :
        utilCall.values[i] = utilCall.values[j]

\* |value - mean| / stddev > threshold for record i, where mean is
\* SumSeq / n and stddev^2 is the sum of the squared distances from the
\* mean over n - 1; the inequality is squared and cleared of fractions
ZScoreAbove(i) ==
    LET n == Len(utilCall.values)
        S == SumSeq(utilCall.values)
        sq(x) == x * x
        dist2n2(k) == sq(n * utilCall.values[k] - S)
    IN  /\ n > 1
        /\ 100 * (n - 1) * dist2n2(i)
              > sq(utilCall.threshold10) * SumSeq([k \in 1..n |-> dist2n2(k)])

TrendDone == utilCall.fn = "predict_sentiment_trend" /\ utilCall.done

RiskScoreDone == utilCall.fn = "calculate_risk_score" /\ utilCall.done

\* C21: calculate_risk_score gives every record of every non-empty snapshot
\* (one or more records per country) a numeric composite score within
\* [0, 100] and exactly one of the five ordered risk categories.
C21_ScoreAndCategory ==
    RiskScoreDone =>
        /\ Len(utilCall.result) = Len(utilCall.rows)
        /\ \A i \in 1..Len(utilCall.rows) :
              /\ utilCall.result[i].numeric
              /\ utilCall.result[i].risk_category \in RiskCategories

----------------------------------------------------------------------------
(* SimpleCache (src/utils.py) and CacheManager (src/src/utils/__init__.py) *)
(* used by a caller while the clock advances                               *)

DefaultTTL == 300       \* ttl_seconds: int = 300
TickSeconds == 150      \* the clock is read every 150 seconds

CacheKeys == { "k1", "k2" }
CacheValues == { "v1", "v2", None }

\* (mutant) an entry is still served when it is exactly ttl old
SimpleCache_get_through_ttl(entries, key, clock) ==
    IF key \in DOMAIN entries
    THEN IF clock - entries[key].timestamp <= DefaultTTL
         THEN [entries |-> entries, value |-> entries[key].value]
         ELSE [entries |-> [k \in DOMAIN entries \ {key} |-> entries[k]],
               value |-> None]
    ELSE [entries |-> entries, value |-> None]

\* SimpleCache.get: the dict afterwards and the value returned
SimpleCache_get(entries, key, clock) ==
    IF key \in DOMAIN entries
    THEN IF clock - entries[key].timestamp < DefaultTTL
         THEN [entries |-> entries, value |-> entries[key].value]
         ELSE [entries |-> [k \in DOMAIN entries \ {key} |-> entries[k]],
               value |-> None]
    ELSE [entries |-> entries, value |-> None]

\* SimpleCache.set: self.cache[key] = (datetime.now(), value)
SimpleCache_set(entries, key, value, clock) ==
    [k \in DOMAIN entries \cup {key} |->
        IF k = key THEN [timestamp |-> clock, value |-> value]
        ELSE entries[k]]

\* CacheManager.get
CacheManager_get(entries, key, clock) ==
    IF key \notin DOMAIN entries
    THEN [entries |-> entries, value |-> None]
    ELSE IF clock < entries[key].expiry
    THEN [entries |-> entries, value |-> entries[key].value]
    ELSE [entries |-> [k \in DOMAIN entries \ {key} |-> entries[k]],
          value |-> None]

\* CacheManager.set: ttl is 0 for None (ttl or self.ttl)
CacheManager_set(entries, key, value, ttl, clock) ==
    [k \in DOMAIN entries \cup {key} |->
        IF k = key
        THEN [value |-> value,
              expiry |-> clock + (IF ttl = 0 THEN DefaultTTL ELSE ttl)]
        ELSE entries[k]]

\* the wrapper of CacheManager.cached around a function whose call (with
\* the arguments that make up cache_key) returns returned: the dict
\* afterwards, the value handed back, whether the function was invoked
CacheManager_cached(entries, cache_key, returned, ttl, clock) ==
    LET got == CacheManager_get(entries, cache_key, clock)
    IN  IF got.value # None
        THEN [entries |-> got.entries, value |-> got.value,
              invoked |-> FALSE]
        ELSE [entries |-> CacheManager_set(got.entries, cache_key, returned,
                                           ttl, clock),
              value |-> returned, invoked |-> TRUE]

\* what the caller stored last under the key, and when (NoEntry: nothing
\* since the start or since the last clear)
StoredLast(key) == IF key \in DOMAIN last_set THEN last_set[key] ELSE NoEntry

NoteSet(key, value) ==
    [k \in DOMAIN last_set \cup {key} |->
        IF k = key THEN [at |-> now, value |-> value] ELSE last_set[k]]

CacheCallOf(op, key, result, invoked) ==
    [obj |-> cacheCall.obj, op |-> op, key |-> key, at |-> now,
     stored |-> StoredLast(key), result |-> result, invoked |-> invoked]

\* a caller creates one of the two cache objects
InitCache ==
    /\ store = << >>
    /\ tableExists = FALSE
    /\ lastCall = NoCall
    /\ riskCall = NoRisk
    /\ adapterCall = NoAdapter
    /\ PipeIdle
    /\ fetchCall = NoFetch
    /\ utilCall = NoUtil
    /\ connections = 0
    /\ now = 0
    /\ cache = << >>
    /\ manager_cache = << >>
    /\ last_set = << >>
    /\ cacheCall \in { NoCacheCall("SimpleCache"), NoCacheCall("CacheManager") }

\* time passes
Tick ==
    /\ now < MaxTicks * TickSeconds
    /\ now' = now + TickSeconds
    /\ UNCHANGED <<cache, manager_cache, last_set, cacheCall>>
    /\ UNCHANGED <<store, tableExists, lastCall, riskCall, adapterCall,
                   fetchCall, utilCall, connections>>
    /\ UNCHANGED pipeVars

\* cache.get(key)
CacheGet ==
    \E key \in CacheKeys :
        /\ cacheCall.op = "none"
        /\ IF cacheCall.obj = "SimpleCache"
           THEN LET out == SimpleCache_get(cache, key, now)
                IN  /\ cache' = out.entries
                    /\ cacheCall' = CacheCallOf("get", key, out.value, FALSE)
                    /\ UNCHANGED manager_cache
           ELSE LET out == CacheManager_get(manager_cache, key, now)
                IN  /\ manager_cache' = out.entries
                    /\ cacheCall' = CacheCallOf("get", key, out.value, FALSE)
                    /\ UNCHANGED cache
        /\ UNCHANGED <<now, last_set>>
        /\ UNCHANGED <<store, tableExists, lastCall, riskCall, adapterCall,
                       fetchCall, utilCall, connections>>
        /\ UNCHANGED pipeVars

\* cache.set(key, value)
CacheSet ==
    \E key \in CacheKeys, value \in CacheValues :
        /\ cacheCall.op = "none"
        /\ IF cacheCall.obj = "SimpleCache"
           THEN /\ cache' = SimpleCache_set(cache, key, value, now)
                /\ UNCHANGED manager_cache
           ELSE /\ manager_cache' =
                      CacheManager_set(manager_cache, key, value, 0, now)
                /\ UNCHANGED cache
        /\ cacheCall' = CacheCallOf("set", key, None, FALSE)
        /\ last_set' = NoteSet(key, value)
        /\ UNCHANGED now
        /\ UNCHANGED <<store, tableExists, lastCall, riskCall, adapterCall,
                       fetchCall, utilCall, connections>>
        /\ UNCHANGED pipeVars

\* cache.clear()
CacheClear ==
    /\ cacheCall.op = "none"
    /\ cache' = << >>
    /\ manager_cache' = << >>
    /\ last_set' = << >>
    /\ cacheCall' = [CacheCallOf("clear", "none", None, FALSE)
                        EXCEPT !.stored = NoEntry]
    /\ UNCHANGED now
    /\ UNCHANGED <<store, tableExists, lastCall, riskCall, adapterCall,
                   fetchCall, utilCall, connections>>
    /\ UNCHANGED pipeVars

\* a call of a function decorated with @cache_manager.cached(); the key
\* stands for the function name with the arguments of the call
CachedCall ==
    \E cache_key \in CacheKeys, returned \in CacheValues :
        LET out == CacheManager_cached(manager_cache, cache_key, returned,
                                       0, now)
        IN  /\ cacheCall.op = "none"
            /\ cacheCall.obj = "CacheManager"
            /\ manager_cache' = out.entries
            /\ cacheCall' = CacheCallOf("cached", cache_key, out.value,
                                        out.invoked)
            /\ last_set' = IF out.invoked THEN NoteSet(cache_key, returned)
                           ELSE last_set
            /\ UNCHANGED <<now, cache>>
            /\ UNCHANGED <<store, tableExists, lastCall, riskCall,
                           adapterCall, fetchCall, utilCall, connections>>
            /\ UNCHANGED pipeVars

\* the caller has the result and goes on
TakeCacheResult ==
    /\ cacheCall.op # "none"
    /\ cacheCall' = NoCacheCall(cacheCall.obj)
    /\ UNCHANGED <<now, cache, manager_cache, last_set>>
    /\ UNCHANGED <<store, tableExists, lastCall, riskCall, adapterCall,
                   fetchCall, utilCall, connections>>
    /\ UNCHANGED pipeVars

NextCache ==
    Tick \/ CacheGet \/ CacheSet \/ CacheClear \/ CachedCall
    \/ TakeCacheResult

SpecCache == InitCache /\ [][NextCache]_vars

\* the entries of the object in use
EntriesInUse ==
    IF cacheCall.obj = "SimpleCache" THEN cache ELSE manager_cache

\* the value stored last under the key of the call is less than TTL old
StoredIsFresh ==
    /\ cacheCall.stored # NoEntry
    /\ cacheCall.at - cacheCall.stored.at < DefaultTTL

\* C22: for SimpleCache and for CacheManager with the default TTL, get(key)
\* returns the value of the most recent set(key, v) when that set is less
\* than TTL seconds old, and None for a key never set, cleared, or set TTL
\* seconds ago or longer, whose entry is removed; no value is served beyond
\* its TTL.
C22_TTLRespected ==
    cacheCall.op = "get" =>
        IF StoredIsFresh
        THEN cacheCall.result = cacheCall.stored.value
        ELSE /\ cacheCall.result = None
             /\ cacheCall.key \notin DOMAIN EntriesInUse

\* a get of SimpleCache exactly TTL seconds after the set: None, and the
\* entry is gone
C22_Witness ==
    /\ cacheCall.obj = "SimpleCache"
    /\ cacheCall.op = "get"
    /\ cacheCall.stored.value = "v1"
    /\ cacheCall.at - cacheCall.stored.at = DefaultTTL
    /\ cacheCall.result = None
    /\ cacheCall.key \notin DOMAIN cache

\* C29: a function decorated with CacheManager.cached is executed at most
\* once per cache key within the TTL: a further call with the same
\* arguments inside the TTL returns the stored result and does not invoke
\* the function, whatever value the function returned.
C29_ExecutedOncePerKey ==
    (cacheCall.op = "cached" /\ StoredIsFresh) =>
        /\ ~cacheCall.invoked
        /\ cacheCall.result = cacheCall.stored.value

----------------------------------------------------------------------------
(* Claims about the order of the stages of a cycle, checked under Spec     *)

\* an article of the cycle has just been scored and classified
AnalysisInCycle == prog = "old" /\ pc = "articles" /\ consumed > 0

\* C23: within one cycle the stages run in the order fetch, filter,
\* score/classify, persist, alert, sleep: no record is persisted before the
\* analysis of all the cycle's articles (of all countries) has completed,
\* so while an article of the cycle is analyzed the cycle has stored nothing.
C23_PersistAfterAllAnalysis ==
    AnalysisInCycle => total_processed = 0

----------------------------------------------------------------------------
(* One cycle of main_loop() whose fetched lists are known: the country     *)
(* loop takes the entries of all_news in the order the fetches completed   *)

\* articles the fetches of a cycle return
OrderArticles ==
    { RawArticle(<<"a">>, <<"u1">>), RawArticle(<<"b">>, <<"u2">>),
      RawArticle(<<"a", Marker>>, <<"u1">>) }

\* the two pipelines answer the same for the same title
SameAnswer ==
    RunOutcome(SentimentOutcome("ok", "NEGATIVE", 99996),
               ClassifierOutcome("ok", << categories[1], categories[2] >>),
               FALSE)

\* NewsAnalyzer.process_articles: processed_news
RECURSIVE process_articles(_, _, _, _)
process_articles(articles, country_code, sLoaded, cLoaded) ==
    IF articles = << >> THEN << >>
    ELSE process_article(Head(articles), country_code, sLoaded, SameAnswer.s,
                         cLoaded, SameAnswer.c, SameAnswer.fails)
         \o process_articles(Tail(articles), country_code, sLoaded, cLoaded)

\* the loop over all_news.items() of main_loop when the entries are in the
\* given order and every connection opens: the rows of the table afterwards
RECURSIVE CountryLoop(_, _, _, _, _)
CountryLoop(rows, order, entries, sLoaded, cLoaded) ==
    IF order = << >> THEN rows
    ELSE LET processed == process_articles(entries[Head(order)].articles,
                                           Head(order), sLoaded, cLoaded)
             after == IF processed # << >>
                      THEN insert_news(rows, TRUE, processed, TRUE).rows
                      ELSE rows
         IN  CountryLoop(after, Tail(order), entries, sLoaded, cLoaded)

\* fetch_all_countries has returned: every fetch answered with a list
InitOrder ==
    /\ store = << >>
    /\ tableExists = TRUE
    /\ lastCall = NoCall
    /\ riskCall = NoRisk
    /\ adapterCall = NoAdapter
    /\ LibIdle
    /\ prog = "old"
    /\ pc = "country"
    /\ \E loaded \in BOOLEAN :
          /\ sentiment_loaded = loaded
          /\ classifier_loaded = loaded
    /\ pending = Countries
    /\ cur = "none"
    /\ consumed = 0
    /\ all_raw_news = << >>
    /\ analyzed_news = << >>
    /\ all_news \in [Countries ->
                       { FetchOutcome("ok", a) :
                           a \in SeqsUpTo(OrderArticles, MaxNews) }]
    /\ total_processed = 0
    /\ critical_count = 0
    /\ exited = "none"

\* one iteration of the loop of process_articles over the fetched list
OldProcessFetched ==
    /\ prog = "old"
    /\ pc = "articles"
    /\ consumed < Len(all_news[cur].articles)
    /\ consumed' = consumed + 1
    /\ analyzed_news' =
         analyzed_news
         \o process_article(all_news[cur].articles[consumed + 1], cur,
                            sentiment_loaded, SameAnswer.s,
                            classifier_loaded, SameAnswer.c, SameAnswer.fails)
    /\ UNCHANGED <<prog, pc, sentiment_loaded, classifier_loaded, pending,
                   cur, all_raw_news, exited>>
    /\ UNCHANGED cycleVars
    /\ UNCHANGED <<store, tableExists, lastCall, riskCall, adapterCall>>
    /\ UNCHANGED libVars

\* the fetched list is exhausted: db.insert_news(processed), whose
\* connection opens
OldInsertFetched ==
    /\ prog = "old"
    /\ pc = "articles"
    /\ consumed = Len(all_news[cur].articles)
    /\ OldInsert
    /\ store' = insert_news(store, tableExists, analyzed_news, TRUE).rows

NextOrder == OldTakeCountry \/ OldProcessFetched \/ OldInsertFetched

SpecOrder == InitOrder /\ [][NextOrder]_vars

RowSet(rows) == { rows[i] : i \in 1..Len(rows) }

\* the orders in which the fetches of the countries can complete
CompletionOrders ==
    { o \in [1..Cardinality(Countries) -> Countries] :
        \A i, j \in DOMAIN o : o[i] = o[j] => i = j }

CycleOver == prog = "old" /\ pc = "sleep"

\* C24: the set of records stored at the end of a cycle, with the country
\* each record is attributed to, depends only on what each country's fetch
\* returned: it is the set the cycle stores for every order in which the
\* fetches complete, also when two countries' lists hold the same article.
C24_OrderIndependent ==
    CycleOver =>
        \A order \in CompletionOrders :
            RowSet(store) = RowSet(CountryLoop(<< >>, order, all_news,
                                               sentiment_loaded,
                                               classifier_loaded))

----------------------------------------------------------------------------
(* add_news / insert_news stopped by a signal (KeyboardInterrupt) while    *)
(* the batch is written                                                    *)

\* (mutant) closing the connection keeps what the open transaction wrote
Connection_close_keeps(committed, working) == working

\* conn.close() without conn.commit(): what the open transaction wrote is
\* rolled back, the table holds the committed rows
Connection_close(committed, working) == committed

\* add_news when KeyboardInterrupt arrives after at records have been
\* handled (at = Len(news_list): after conn.commit() returned).  It is not
\* a DatabaseException: it leaves the with block, whose __exit__ closes the
\* connection, and the call
add_news_interrupted(rows, news_list, at) ==
    LET done == AddNewsLoop(rows, SubSeq(news_list, 1, at), 0)
    IN  IF done.raised \/ at < Len(news_list)
        THEN [rows |-> Connection_close(rows, done.rows), raised |-> TRUE]
        ELSE [rows |-> Connection_close(done.rows, done.rows),
              raised |-> TRUE]

\* insert_news likewise: KeyboardInterrupt is not an Exception, no handler
\* of insert_news takes it, finally closes the connection
insert_news_interrupted(rows, news_data, at) ==
    LET done == InsertNewsLoop(rows, SubSeq(news_data, 1, at), 0)
    IN  IF at < Len(news_data)
        THEN [rows |-> Connection_close(rows, done.rows), raised |-> TRUE]
        ELSE [rows |-> Connection_close(done.rows, done.rows),
              raised |-> TRUE]

\* records of an interrupted batch
TornNews ==
    { StoreRecord(<<"a">>, <<"u1">>), StoreRecord(<<"b">>, <<"u1">>),
      StoreRecord(<<"a">>, <<"u2">>) }

TornBatches == (SeqsUpTo(TornNews, MaxBatch) \ { << >> }) \cup FaultBatches

\* the table exists and holds nothing or one record
InitTorn ==
    /\ store \in { << >>, << StoreRecord(<<"a">>, <<"u1">>) >> }
    /\ tableExists = TRUE
    /\ lastCall = NoCall
    /\ riskCall = NoRisk
    /\ adapterCall = NoAdapter
    /\ PipeIdle
    /\ LibIdle

NoSignal == 0 - 1

\* repository.add_news(news_list) while a signal may arrive
AddNewsUnderSignal ==
    \E news_list \in TornBatches :
        \E at \in { NoSignal } \cup 0..Len(news_list) :
            LET out == IF at = NoSignal
                       THEN add_news(store, tableExists, news_list, TRUE)
                       ELSE add_news_interrupted(store, news_list, at)
            IN  /\ lastCall = NoCall
                /\ store' = out.rows
                /\ lastCall' = [op |-> "add_news", opened |-> TRUE,
                                hadTable |-> tableExists,
                                batch |-> news_list, before |-> store,
                                ret |-> IF at = NoSignal THEN out.ret ELSE 0,
                                raised |-> out.raised, signal_at |-> at]
                /\ UNCHANGED <<tableExists, riskCall, adapterCall>>
                /\ UNCHANGED pipeVars
                /\ UNCHANGED libVars

\* db.insert_news(news_data) while a signal may arrive
InsertNewsUnderSignal ==
    \E news_data \in TornBatches :
        \E at \in { NoSignal } \cup 0..Len(news_data) :
            LET out == IF at = NoSignal
                       THEN insert_news(store, tableExists, news_data, TRUE)
                       ELSE insert_news_interrupted(store, news_data, at)
            IN  /\ lastCall = NoCall
                /\ store' = out.rows
                /\ lastCall' = [op |-> "insert_news", opened |-> TRUE,
                                hadTable |-> tableExists,
                                batch |-> news_data, before |-> store,
                                ret |-> IF at = NoSignal THEN out.ret ELSE 0,
                                raised |-> out.raised, signal_at |-> at]
                /\ UNCHANGED <<tableExists, riskCall, adapterCall>>
                /\ UNCHANGED pipeVars
                /\ UNCHANGED libVars

\* calls that run to their end (an error of a record included) and calls
\* that a signal stops
NextTorn == AddNewsUnderSignal \/ InsertNewsUnderSignal \/ TakeResult

SpecTorn == InitTorn /\ [][NextTorn]_vars

\* the rows of the table when every record of the batch the store accepts
\* is committed
WholeBatchStored ==
    IF lastCall.op = "add_news"
    THEN LET done == AddNewsLoop(lastCall.before, lastCall.batch, 0)
         IN  IF done.raised THEN lastCall.before ELSE done.rows
    ELSE InsertNewsLoop(lastCall.before, lastCall.batch, 0).rows

\* what the open transaction had written when the signal arrived
WrittenAtSignal ==
    InsertNewsLoop(lastCall.before,
                   SubSeq(lastCall.batch, 1, lastCall.signal_at), 0).rows

\* C25: a stop signal or an error that interrupts insert_news / add_news in
\* the middle of a batch leaves no torn write: the store holds either all
\* accepted records of the batch or none of the batch, and no two stored
\* records share a (title, url).
C25_NoTornWrite ==
    /\ NoDuplicatePairs(store)
    /\ IsStoreCall =>
          \/ store = lastCall.before
          \/ store = WholeBatchStored

\* insert_news stopped after it has inserted a record and before the end
\* of the batch, whose later record is acceptable too: nothing of the batch
\* is stored
C25_Witness ==
    /\ lastCall.op = "insert_news"
    /\ lastCall.raised
    /\ lastCall.signal_at > 0
    /\ lastCall.signal_at < CallLen
    /\ WrittenAtSignal # lastCall.before
    /\ WrittenAtSignal # WholeBatchStored
    /\ store = lastCall.before

----------------------------------------------------------------------------
(* The connections the operations of SQLiteNewsRepository and of Database  *)
(* (src/main_old.py) open and close                                        *)

\* (mutant) __exit__ closes only when the body ended without an exception
DatabaseConnection_exit_on_success(open, conn, exc) ==
    IF conn /\ ~exc THEN open - 1 ELSE open

\* DatabaseConnection.__enter__: sqlite3.connect; self.conn is set, or
\* DatabaseException is raised.  open: the connections open afterwards
DatabaseConnection_enter(open, connOk) ==
    IF connOk THEN [open |-> open + 1, conn |-> TRUE, raised |-> FALSE]
    ELSE [open |-> open, conn |-> FALSE, raised |-> TRUE]

\* DatabaseConnection.__exit__(exc_type, ...): if self.conn:
\* self.conn.close()
DatabaseConnection_exit(open, conn, exc) ==
    IF conn THEN open - 1 ELSE open

\* with DatabaseConnection(self.db_path) as conn: body -- the connections
\* open after the statement, and the most that were open during it
WithDatabaseConnection(open, connOk, bodyRaises) ==
    LET entered == DatabaseConnection_enter(open, connOk)
    IN  IF entered.raised
        THEN [open |-> entered.open, peak |-> entered.open]
        ELSE [open |-> DatabaseConnection_exit(entered.open, entered.conn,
                                               bodyRaises),
              peak |-> entered.open]

\* Database (main_old): conn = self.connect() ... try: ... finally:
\* conn.close(); connect() raises when sqlite3.connect does
ConnectTryFinally(open, connOk, bodyRaises) ==
    IF connOk THEN [open |-> (open + 1) - 1, peak |-> open + 1]
    ELSE [open |-> open, peak |-> open]

ConnCall(op, connOk, bodyRaises, scope) ==
    [op |-> op, opened |-> connOk, body_raised |-> bodyRaises,
     open_before |-> connections, peak |-> scope.peak,
     open_after |-> scope.open]

InitConn ==
    /\ store = << >>
    /\ tableExists \in BOOLEAN
    /\ lastCall = NoCall
    /\ riskCall = NoRisk
    /\ adapterCall = NoAdapter
    /\ PipeIdle
    /\ fetchCall = NoFetch
    /\ utilCall = NoUtil
    /\ CacheIdle
    /\ connections = 0

\* what every step of a caller of the storage layer leaves alone
ConnFrame ==
    /\ UNCHANGED <<riskCall, adapterCall, fetchCall, utilCall>>
    /\ UNCHANGED cacheVars
    /\ UNCHANGED pipeVars

\* repository.init_database()
ConnInitDatabase ==
    \E connOk \in BOOLEAN :
        LET scope == WithDatabaseConnection(connections, connOk, FALSE)
        IN  /\ lastCall = NoCall
            /\ tableExists' = (tableExists \/ connOk)
            /\ connections' = scope.open
            /\ lastCall' = ConnCall("init_database", connOk, FALSE, scope)
            /\ UNCHANGED store
            /\ ConnFrame

\* db.init_db()
ConnInitDb ==
    \E connOk \in BOOLEAN :
        LET scope == ConnectTryFinally(connections, connOk, FALSE)
        IN  /\ lastCall = NoCall
            /\ tableExists' = (tableExists \/ connOk)
            /\ connections' = scope.open
            /\ lastCall' = ConnCall("init_db", connOk, FALSE, scope)
            /\ UNCHANGED store
            /\ ConnFrame

\* repository.add_news(news_list)
ConnAddNews ==
    \E news_list \in TornBatches, connOk \in BOOLEAN :
        LET out == add_news(store, tableExists, news_list, connOk)
            bodyRaises == connOk /\ out.raised
            scope == WithDatabaseConnection(connections, connOk, bodyRaises)
        IN  /\ lastCall = NoCall
            /\ store' = out.rows
            /\ connections' = scope.open
            /\ lastCall' = ConnCall("add_news", connOk, bodyRaises, scope)
            /\ UNCHANGED tableExists
            /\ ConnFrame

\* db.insert_news(news_data)
ConnInsertNews ==
    \E news_data \in TornBatches, connOk \in BOOLEAN :
        LET out == insert_news(store, tableExists, news_data, connOk)
            scope == ConnectTryFinally(connections, connOk, FALSE)
        IN  /\ lastCall = NoCall
            /\ store' = out.rows
            /\ connections' = scope.open
            /\ lastCall' = ConnCall("insert_news", connOk, FALSE, scope)
            /\ UNCHANGED tableExists
            /\ ConnFrame

\* a read of the repository: the SELECT raises when the table is missing
ConnRead(op, connOk) ==
    LET bodyRaises == connOk /\ ~tableExists
        scope == WithDatabaseConnection(connections, connOk, bodyRaises)
    IN  /\ lastCall = NoCall
        /\ connections' = scope.open
        /\ lastCall' = ConnCall(op, connOk, bodyRaises, scope)
        /\ UNCHANGED <<store, tableExists>>
        /\ ConnFrame

ConnGetAllNews == \E connOk \in BOOLEAN : ConnRead("get_all_news", connOk)

ConnGetNewsByCountry ==
    \E connOk \in BOOLEAN : ConnRead("get_news_by_country", connOk)

ConnGetNewsByCategory ==
    \E connOk \in BOOLEAN : ConnRead("get_news_by_category", connOk)

ConnGetRecentNews ==
    \E connOk \in BOOLEAN : ConnRead("get_recent_news", connOk)

\* the caller goes on
ConnTakeResult ==
    /\ lastCall # NoCall
    /\ lastCall' = NoCall
    /\ UNCHANGED <<store, tableExists, connections>>
    /\ ConnFrame

NextConn ==
    \/ ConnInitDatabase \/ ConnInitDb \/ ConnAddNews \/ ConnInsertNews
    \/ ConnGetAllNews \/ ConnGetNewsByCountry \/ ConnGetNewsByCategory
    \/ ConnGetRecentNews \/ ConnTakeResult

SpecConn == InitConn /\ [][NextConn]_vars

\* C26: every repository / Database operation (init, add, each read) opens
\* its own connection and has closed it by the time it returns, normally or
\* raising; after any sequence of operations no connection remains open.
C26_ConnectionsClosed ==
    /\ connections = 0
    /\ lastCall # NoCall =>
          /\ lastCall.open_after = lastCall.open_before
          /\ lastCall.peak = lastCall.open_before
                             + (IF lastCall.opened THEN 1 ELSE 0)

\* add_news whose with block is left by an exception: the connection was
\* opened and is closed
C26_Witness ==
    /\ lastCall # NoCall
    /\ lastCall.op = "add_news"
    /\ lastCall.opened
    /\ lastCall.body_raised
    /\ lastCall.peak = 1
    /\ connections = 0
    /\ store # << >>

----------------------------------------------------------------------------
(* Claims about ErrorHandler.retry, checked under SpecUtils                *)

RetryDone == utilCall.fn = "retry" /\ utilCall.done

\* the invocations that return, among the first max_retries
Successes ==
    { k \in 1..utilCall.max_retries : utilCall.outcomes[k].kind = "return" }

\* the invocation after which the wrapper stops: the first that returns,
\* the last one when none does
LastAttempt ==
    IF Successes = {} THEN utilCall.max_retries
    ELSE CHOOSE k \in Successes : \A j \in Successes : k <= j

\* C27: a function wrapped by ErrorHandler.retry(max_retries, delay) is
\* invoked at least once and at most max_retries times; the wrapper returns
\* the result of the first successful invocation, waits delay * 2^k after
\* the k-th failed attempt (k = 0, 1, ...) but not after the last one, and
\* re-raises the last exception when all max_retries attempts fail; it
\* never returns a value the function did not return.
C27_RetryPolicy ==
    RetryDone =>
        /\ utilCall.result.invoked >= 1
        /\ utilCall.result.invoked <= utilCall.max_retries
        /\ utilCall.result.invoked = LastAttempt
        /\ utilCall.result.sleeps =
              [k \in 1..(LastAttempt - 1) |-> utilCall.delay * (2 ^ (k - 1))]
        /\ utilCall.result.result =
              IF Successes = {}
              THEN Raised(utilCall.outcomes[LastAttempt].value)
              ELSE Returned(utilCall.outcomes[LastAttempt].value)

----------------------------------------------------------------------------
(* Claims about the averages of predict_sentiment_trend, under SpecUtils   *)

\* the frame has the columns of the table and its dates parse
WellFormedFrame == utilCall.columns = AllColumns /\ utilCall.dates = "iso"

\* C28: for a country with at least 5 records predict_sentiment_trend
\* returns "success", in which the 7-point and the 30-point moving averages
\* are both defined numeric values, and the direction is rising exactly
\* when the 7-point average is greater than the 30-point average,
\* otherwise falling.
C28_AveragesDefined ==
    (/\ TrendDone
     /\ WellFormedFrame
     /\ Len(CountryData(utilCall.ulke, utilCall.country)) >= 5)
        => /\ utilCall.result.status = "success"
           /\ utilCall.averages.ma_7.defined
           /\ utilCall.averages.ma_30.defined
           /\ utilCall.averages.trend \in { "Yukselis", "Dusus" }
           /\ utilCall.averages.trend = "Yukselis"
                 <=> 30 * utilCall.averages.ma_7.sum
                        > 7 * utilCall.averages.ma_30.sum

----------------------------------------------------------------------------
(* A caller has NewsAnalyzer.analyze_news analyze a record and hands the   *)
(* result to SQLiteNewsRepository.add_news                                 *)

InitAnalyzed ==
    /\ store = << >>
    /\ tableExists = TRUE
    /\ lastCall = NoCall
    /\ riskCall = NoRisk
    /\ PipeIdle
    /\ LibIdle
    /\ adapterCall \in
         [fn : {"none"}, news : AnalyzerNews,
          sLoaded : BOOLEAN, sOut : SentimentOutcomes,
          cLoaded : {TRUE}, cOut : { ClassifierOutcome("ok", << categories[1] >>) },
          scorer : InjectedScorers, classifier : {"adapter"},
          fails : BOOLEAN,
          result : { Returned("none") }]

\* repository.add_news([analyzed]) with the record analyze_news returned
StoreAnalyzed ==
    \E connOk \in BOOLEAN :
        LET news_list == << adapterCall.result.value >>
            out == add_news(store, tableExists, news_list, connOk)
        IN  /\ adapterCall.fn = "analyze_news"
            /\ lastCall = NoCall
            /\ store' = out.rows
            /\ lastCall' = [op |-> "add_news", opened |-> connOk,
                            hadTable |-> tableExists, batch |-> news_list,
                            before |-> store, ret |-> out.ret,
                            raised |-> out.raised]
            /\ UNCHANGED <<tableExists, riskCall, adapterCall>>
            /\ UNCHANGED pipeVars
            /\ UNCHANGED libVars

NextAnalyzed == CallAnalyzeNews \/ StoreAnalyzed

SpecAnalyzed == InitAnalyzed /\ [][NextAnalyzed]_vars

\* C30: for every record produced by analyze_news and stored by add_news
\* without the error sentinel, the stored risk level is
\* RiskThresholdsConfig.get_risk_level of the stored score, also for
\* records that took a fallback path (empty title, failed scorer).
C30_RiskMatchesScore ==
    \A i \in 1..Len(store) :
        store[i].risk_seviyesi # "HATA"
            => store[i].risk_seviyesi = get_risk_level(store[i].skor)

============================================================================
